---- MODULE Spec2Model ----
(***************************************************************************)
(* Verification model of the qyx-change release-notes pipeline:            *)
(*   - ClaudeGenerator   (generation orchestrator, validate / retry /      *)
(*                        deterministic fallback)                          *)
(*   - Redactor          (pattern redaction over change records)           *)
(*   - ChangelogWriter   (merge of a version block into CHANGELOG.md)      *)
(*   - Normalizer        (deduplication, enrichment and categorization of  *)
(*                        change records)                                  *)
(*   - the pipeline functions of the CLI and of the QyxChange class, which *)
(*     call the four components in sequence                                *)
(*                                                                         *)
(* Text values are sequences of atoms.  An atom is a one-character string  *)
(* wherever the code inspects characters (regular expressions, substring   *)
(* search, startsWith), and may be an opaque multi-character literal where *)
(* the code only copies or concatenates the text.  The empty string is the *)
(* empty sequence.                                                         *)
(***************************************************************************)
EXTENDS Integers, Sequences, FiniteSets, TLC

VARIABLES
  \* ---- ClaudeGenerator.generateReleaseNotes ----
  gpc,        \* position in generateReleaseNotes
  genv,       \* process.env carries ANTHROPIC_API_KEY or CLAUDE_CODE_OAUTH_TOKEN
  gchanges,   \* argument `changes`
  gversion,   \* argument `version` (<<>> when undefined)
  gresp,      \* value returned by the last callClaude
  gdata,      \* releaseData parsed from the first response
  gcalls,     \* history: outcomes of the callClaude invocations of this run
  gresult,    \* value returned to the caller
  gsteps,     \* history: number of steps this run has taken
  \* ---- Redactor (one instance) ----
  rconfig,    \* constructor argument `config`
  rlastIndex, \* lastIndex of every RegExp object the instance holds
  rinput,     \* argument `changes` of the last call
  routput,    \* value returned by redactChanges, when it was the last call
  rdetect,    \* value returned by detectSensitiveContent, when it was the last call
  rop,        \* history: the last operation called on the instance
  rcalls,     \* history: number of calls made on the instance
  \* ---- ChangelogWriter (one writer, one changelog path) ----
  wconfig,    \* constructor argument `config`
  wtoday,     \* the calendar day, as an index into WriterDates
  wdoc,       \* the stored document
  wprev,      \* history: the stored document before the last writeChangelog
  wlast,      \* history: arguments and outcome of the last writeChangelog
  wwritten,   \* history: version labels passed to writeChangelog, in call order
  wclean,     \* history: no store failure has happened so far
  wfresh,     \* history: every call so far passed a version with no heading yet
  wruns,      \* writeChangelog calls in progress at the same time, by caller
  wevents,    \* history: the file reads and writes of those calls, in order
  \* ---- Normalizer (one instance) ----
  nconfig,    \* constructor argument `config`
  ninput,     \* argument `changes` of the last normalize call
  ndedup,     \* history: what removeDuplicates returned inside the last call
  noutput,    \* value returned by the last normalize call
  \* ---- one pipeline run (CLI generate, CLI release, QyxChange) ----
  pkind,      \* which pipeline function runs
  popts,      \* its options: preview, dryRun, tag / version
  ppc,        \* the statement of the pipeline function that runs next
  pchanges,   \* the local `changes`: what the collectors returned
  plog        \* history: the stages that have run, in order

gvars == <<gpc, genv, gchanges, gversion, gresp, gdata, gcalls, gresult, gsteps>>

rvars == <<rconfig, rlastIndex, rinput, routput, rdetect, rop, rcalls>>

wvars == <<wconfig, wtoday, wdoc, wprev, wlast, wwritten, wclean, wfresh, wruns, wevents>>

nvars == <<nconfig, ninput, ndedup, noutput>>

pvars == <<pkind, popts, ppc, pchanges, plog>>

vars == <<gvars, rvars, wvars, nvars, pvars>>

\* No generation run exists
GeneratorIdle ==
  /\ gpc = "idle" /\ genv = FALSE /\ gchanges = <<>> /\ gversion = <<>>
  /\ gresp = <<>> /\ gdata = <<>> /\ gcalls = <<>> /\ gresult = <<>> /\ gsteps = 0

\* No Redactor has been constructed
RedactorIdle ==
  /\ rconfig = <<>> /\ rlastIndex = <<>> /\ rinput = <<>> /\ routput = <<>>
  /\ rdetect = <<>> /\ rop = "idle" /\ rcalls = 0

\* No ChangelogWriter has been constructed
WriterIdle ==
  /\ wconfig = <<>> /\ wtoday = 1 /\ wdoc = <<>> /\ wprev = <<>> /\ wlast = <<>>
  /\ wwritten = <<>> /\ wclean = TRUE /\ wfresh = TRUE
  /\ wruns = <<>> /\ wevents = <<>>

\* No Normalizer has been constructed
NormalizerIdle ==
  /\ nconfig = <<>> /\ ninput = <<>> /\ ndedup = <<>> /\ noutput = <<>>

\* No pipeline function has been called
PipelineIdle ==
  /\ pkind = "none" /\ popts = <<>> /\ ppc = "idle" /\ pchanges = <<>> /\ plog = <<>>

(***************************************************************************)
(* Generic helpers on sequences                                            *)
(***************************************************************************)
Range(s) == {s[i] : i \in 1..Len(s)}

\* F(v) with v evaluated once, before F is applied (a `const x = v` binding)
Bind(v, F(_)) == CHOOSE y \in {F(x) : x \in {v}} : TRUE

RECURSIVE Concat(_)
\* Array.prototype.flat: the concatenation of a sequence of sequences
Concat(ss) == IF ss = <<>> THEN <<>> ELSE Head(ss) \o Concat(Tail(ss))

\* Sequences without repetition over a set, of length at most n
DistinctSeqs(S, n) ==
  {s \in UNION {[1..k -> S] : k \in 0..n} :
     \A i, j \in 1..Len(s) : i # j => s[i] # s[j]}

(***************************************************************************)
(* Characters                                                              *)
(***************************************************************************)
LowerLetters == {"a","b","c","d","e","f","g","h","i","j","k","l","m",
                 "n","o","p","q","r","s","t","u","v","w","x","y","z"}
UpperLetters == {"A","B","C","D","E","F","G","H","I","J","K","L","M",
                 "N","O","P","Q","R","S","T","U","V","W","X","Y","Z"}
Digits == {"0","1","2","3","4","5","6","7","8","9"}

UpperSeq == <<"A","B","C","D","E","F","G","H","I","J","K","L","M",
              "N","O","P","Q","R","S","T","U","V","W","X","Y","Z">>
LowerSeq == <<"a","b","c","d","e","f","g","h","i","j","k","l","m",
              "n","o","p","q","r","s","t","u","v","w","x","y","z">>

\* String.prototype.toLowerCase on one character
LowerChar(c) ==
  IF c \in UpperLetters
  THEN LowerSeq[CHOOSE i \in 1..26 : UpperSeq[i] = c]
  ELSE c

\* String.prototype.toLowerCase
ToLowerCase(s) == [i \in 1..Len(s) |-> LowerChar(s[i])]

\* s.slice(i-1, i-1+n) in 1-based positions
Slice(s, i, n) == SubSeq(s, i, i + n - 1)

\* String.prototype.includes
Includes(s, sub) ==
  \E i \in 1..(Len(s) - Len(sub) + 1) : Slice(s, i, Len(sub)) = sub

\* String.prototype.startsWith
StartsWith(s, pre) == Len(s) >= Len(pre) /\ SubSeq(s, 1, Len(pre)) = pre


\* Array.prototype.slice(0, n)
Take(s, n) == SubSeq(s, 1, IF n < Len(s) THEN n ELSE Len(s))

(***************************************************************************)
(* Shared data: FormatConfig.sections and Change records                   *)
(***************************************************************************)
s_feature == <<"f","e","a","t","u","r","e">>
s_feat    == <<"f","e","a","t">>
s_bug     == <<"b","u","g">>
s_fix     == <<"f","i","x">>
s_other   == <<"o","t","h","e","r">>
s_Bugfix  == <<"B","u","g","f","i","x">>
s_Features == <<"F","e","a","t","u","r","e","s">>
s_Fixes    == <<"F","i","x","e","s">>

\* DEFAULT_CONFIG.format.sections (first two entries, emoji left out)
FormatSections ==
  << [name |-> s_Features, labels |-> <<s_feature, s_feat>>],
     [name |-> s_Fixes,    labels |-> <<s_bug, s_fix>>] >>

\* Change records handed to the generator (id, type, title, labels, prUrl)
GenChangePool ==
  { [id |-> <<"a","1">>, type |-> s_fix, title |-> <<"Fix crash">>,
     labels |-> <<s_Bugfix>>, prUrl |-> <<>>],
    [id |-> <<"#","7">>, type |-> s_feat, title |-> <<"Add login">>,
     labels |-> <<>>, prUrl |-> <<"https://h/pull/7">>],
    [id |-> <<"c","3">>, type |-> s_other, title |-> <<"Bump deps">>,
     labels |-> <<>>, prUrl |-> <<>>],
    [id |-> <<"#","9">>, type |-> s_feat, title |-> <<"Login fix">>,
     labels |-> <<s_feature, s_bug>>, prUrl |-> <<"https://h/pull/9">>] }

MaxGenChanges == 2
GenChangeSets == DistinctSeqs(GenChangePool, MaxGenChanges)

GenVersions == { <<>>, <<"v","1">> }

(***************************************************************************)
(* ReleaseData and the responses of the external generation call           *)
(***************************************************************************)
ArraySections(v) == [tag |-> "array", v |-> v]
NonIterable == [tag |-> "nonIterable", v |-> <<>>]
AbsentSections == [tag |-> "absent", v |-> <<>>]

MkItem(id, short) == [id |-> id, short |-> short, pr |-> <<>>, why |-> <<>>]
MkSection(id, title, items) == [id |-> id, title |-> title, items |-> items]
MkData(t, secs, notes, sum) ==
  [releaseTitle |-> t, sections |-> secs, developerNotes |-> notes,
   summary |-> sum, suspectPii |-> FALSE, suspectJargon |-> FALSE]

GoodSec  == MkSection(<<"fixes">>, <<"Fixes">>, <<MkItem(<<"i1">>, <<"Fix crash">>)>>)
NoIdSec  == MkSection(<<>>, <<"Fixes">>, <<>>)
BadItemSec == MkSection(<<"fixes">>, <<"Fixes">>, <<MkItem(<<"i1">>, <<>>)>>)

\* The values of the `sections` property of a parsed JSON object
JsonSectionValues ==
  { AbsentSections, NonIterable, ArraySections(<<>>), ArraySections(<<GoodSec>>),
    ArraySections(<<NoIdSec>>), ArraySections(<<BadItemSec>>) }

\* Objects that JSON.parse can return for the `{...}` part of a response
JsonObjects ==
  { MkData(<<"T">>, secs, <<>>, <<"S">>) : secs \in JsonSectionValues }
  \cup { MkData(t, ArraySections(<<GoodSec>>), <<>>, sum) :
            t \in {<<>>, <<"T">>}, sum \in {<<>>, <<"S">>} }

md_h2v1    == <<"#","#"," ","v","1">>
md_h3Fx    == <<"#","#","#"," ","F","x">>
md_h3Sum   == <<"#","#","#"," ","S","u","m","m","a","r","y">>
md_item    == <<" ","-"," ","a">>
md_text    == <<"t","x","t">>

\* Line lists of responses that hold no `{...}` (response.split('\n'))
MarkdownTexts ==
  { << <<>> >>,
    <<md_h2v1, md_h3Fx, md_item>>,
    <<md_h2v1, md_item>>,
    <<md_h3Sum, md_item>>,
    <<md_h3Fx, md_item, md_h3Sum, md_text>> }

NoJson == MkData(<<>>, AbsentSections, <<>>, <<>>)

Undefined == [kind |-> "undefined", brace |-> FALSE, jsonOk |-> FALSE,
              json |-> NoJson, lines |-> << <<>> >>]
\* A response is a string: with or without a `{...}` match, whose JSON.parse
\* succeeds or throws
TextResponses ==
  { [kind |-> "text", brace |-> TRUE, jsonOk |-> TRUE, json |-> o, lines |-> << <<>> >>] :
      o \in JsonObjects }
  \cup { [kind |-> "text", brace |-> TRUE, jsonOk |-> FALSE, json |-> NoJson,
          lines |-> << <<>> >>] }
  \cup { [kind |-> "text", brace |-> FALSE, jsonOk |-> FALSE, json |-> NoJson,
          lines |-> m] : m \in MarkdownTexts }

Raised == [kind |-> "raise", brace |-> FALSE, jsonOk |-> FALSE,
           json |-> NoJson, lines |-> << <<>> >>]

(***************************************************************************)
(* ClaudeGenerator: parsing and validation                                 *)
(***************************************************************************)
WhiteSpace == {" ", "\t"}

RECURSIVE TrimStart(_)
\* String.prototype.trimStart
TrimStart(s) ==
  IF s # <<>> /\ Head(s) \in WhiteSpace THEN TrimStart(Tail(s)) ELSE s

RECURSIVE TrimEnd(_)
\* String.prototype.trimEnd
TrimEnd(s) ==
  IF s # <<>> /\ s[Len(s)] \in WhiteSpace THEN TrimEnd(SubSeq(s, 1, Len(s) - 1)) ELSE s

\* String.prototype.trim on one line
Trim(s) == TrimEnd(TrimStart(s))

\* x.toLowerCase().replace(/[^a-z0-9]/g, '-')
Slug(s) ==
  [i \in 1..Len(s) |->
     IF LowerChar(s[i]) \in LowerLetters \cup Digits THEN LowerChar(s[i]) ELSE "-"]

\* String.prototype.replace(pre, '') with a string pattern: first occurrence only
RECURSIVE RemoveFirst(_, _)
RemoveFirst(s, pre) ==
  IF Len(s) < Len(pre) THEN s
  ELSE IF StartsWith(s, pre) THEN SubSeq(s, Len(pre) + 1, Len(s))
       ELSE <<Head(s)>> \o RemoveFirst(Tail(s), pre)

p_h2 == <<"#","#"," ">>
p_h3 == <<"#","#","#"," ">>
p_item == <<"-"," ">>
s_Summary == <<"S","u","m","m","a","r","y">>
s_summary == <<"s","u","m","m","a","r","y">>
s_itemDash == <<"i","t","e","m","-">>

DefaultTitle == <<"Release Notes">>
DefaultJsonSummary == <<"This release includes various improvements.">>
DefaultMdSummary == <<"This release includes various improvements and fixes.">>

\* The loop body of parseMarkdownResponse on the trimmed line;
\* st = [title, secs, cur, hasCur, summary]
MdStepTrimmed(st, trimmed) ==
  LET isH3 == StartsWith(trimmed, p_h3)
      isItem == StartsWith(trimmed, p_item) /\ (st.hasCur \/ isH3)
      newSection == MkSection(Slug(trimmed), RemoveFirst(trimmed, p_h3), <<>>)
      newItem(cur) == MkItem(s_itemDash \o <<ToString(Len(cur.items))>>,
                             RemoveFirst(trimmed, p_item))
      cur2 == IF isH3 THEN newSection
              ELSE IF isItem THEN [st.cur EXCEPT !.items = Append(@, newItem(st.cur))]
              ELSE st.cur
  IN [title |-> IF StartsWith(trimmed, p_h2) /\ ~Includes(st.title, s_Summary)
                THEN RemoveFirst(trimmed, p_h2) ELSE st.title,
      secs |-> IF isH3 /\ st.hasCur THEN Append(st.secs, st.cur) ELSE st.secs,
      cur |-> cur2,
      hasCur |-> st.hasCur \/ isH3,
      summary |-> IF trimmed # <<>> /\ ~StartsWith(trimmed, <<"#">>)
                     /\ ~StartsWith(trimmed, <<"-">>)
                     /\ (st.hasCur \/ isH3) /\ cur2.title = s_Summary
                  THEN trimmed ELSE st.summary]

\* const trimmed = line.trim(); then the loop body
MdStep(st, line) ==
  LET Body(trimmed) == MdStepTrimmed(st, trimmed) IN Bind(Trim(line), Body)

RECURSIVE MdLoop(_, _)
\* for (const line of lines) { ... }
MdLoop(st, lines) ==
  IF lines = <<>> THEN st
  ELSE LET Rest(st2) == MdLoop(st2, Tail(lines))
       IN Bind(MdStep(st, Head(lines)), Rest)

\* parseMarkdownResponse after its loop: push the last section, extract the
\* summary section, build the ReleaseData
MdFinish(st) ==
  LET secs == IF st.hasCur THEN Append(st.secs, st.cur) ELSE st.secs
      isSum(i) == Includes(ToLowerCase(secs[i].title), s_summary)
      found == \E i \in 1..Len(secs) : isSum(i)
      idx == CHOOSE i \in 1..Len(secs) :
               isSum(i) /\ \A j \in 1..(i - 1) : ~isSum(j)
      extract == st.summary = <<>> /\ found /\ Len(secs[idx].items) > 0
      summary == IF extract THEN secs[idx].items[1].short ELSE st.summary
      secs2 == IF extract
               THEN SubSeq(secs, 1, idx - 1) \o SubSeq(secs, idx + 1, Len(secs))
               ELSE secs
  IN MkData(st.title, ArraySections(secs2), <<>>,
            IF summary # <<>> THEN summary ELSE DefaultMdSummary)

\* ClaudeGenerator.parseMarkdownResponse
parseMarkdownResponse(lines) ==
  Bind(MdLoop([title |-> DefaultTitle, secs |-> <<>>,
               cur |-> MkSection(<<>>, <<>>, <<>>), hasCur |-> FALSE,
               summary |-> <<>>], lines),
       MdFinish)

\* ClaudeGenerator.parseClaudeResponse: [ok |-> FALSE] stands for the
\* GenerationError it throws
parseClaudeResponse(resp) ==
  IF resp.kind # "text" THEN [ok |-> FALSE, data |-> NoJson]
  ELSE IF resp.brace
  THEN IF resp.jsonOk
       THEN [ok |-> TRUE,
             data |-> MkData(
               IF resp.json.releaseTitle # <<>> THEN resp.json.releaseTitle ELSE DefaultTitle,
               IF resp.json.sections.tag = "absent" THEN ArraySections(<<>>)
                                                    ELSE resp.json.sections,
               resp.json.developerNotes,
               IF resp.json.summary # <<>> THEN resp.json.summary ELSE DefaultJsonSummary)]
       ELSE [ok |-> FALSE, data |-> NoJson]
  ELSE [ok |-> TRUE, data |-> parseMarkdownResponse(resp.lines)]

\* The errors validateReleaseData collects (one entry per failed rule)
ValidationErrors(data) ==
  (IF data.releaseTitle = <<>> THEN <<"Missing release title">> ELSE <<>>)
  \o (IF data.sections.tag = "array" /\ Len(data.sections.v) = 0
      THEN <<"No sections found">> ELSE <<>>)
  \o (IF data.summary = <<>> THEN <<"Missing summary">> ELSE <<>>)
  \o Concat([i \in 1..Len(data.sections.v) |->
        LET sec == data.sections.v[i]
        IN (IF sec.id = <<>> \/ sec.title = <<>> THEN <<"Invalid section">> ELSE <<>>)
           \o Concat([k \in 1..Len(sec.items) |->
                 IF sec.items[k].id = <<>> \/ sec.items[k].short = <<>>
                 THEN <<"Invalid item">> ELSE <<>>])])

\* ClaudeGenerator.validateReleaseData: `for (const section of data.sections)`
\* throws a TypeError when sections is a truthy value that is not iterable
validateReleaseData(data) ==
  IF data.sections.tag = "nonIterable"
  THEN [threw |-> TRUE, isValid |-> FALSE]
  ELSE [threw |-> FALSE, isValid |-> ValidationErrors(data) = <<>>]

(***************************************************************************)
(* ClaudeGenerator: deterministic fallback                                 *)
(***************************************************************************)
\* ClaudeGenerator.matchesSection
matchesSection(change, sectionLabels) ==
  \/ \E i \in 1..Len(change.labels), j \in 1..Len(sectionLabels) :
       Includes(ToLowerCase(change.labels[i]), ToLowerCase(sectionLabels[j]))
  \/ \E j \in 1..Len(sectionLabels) : change.type = sectionLabels[j]

\* The ReleaseItem built from a change in generateDeterministicReleaseNotes
DetItem(change) ==
  [id |-> change.id,
   short |-> change.title \o <<" ","(">> \o change.id \o <<")">>,
   pr |-> change.prUrl, why |-> <<>>]

\* Sections of the configured groups that received at least one change
DetConfigSections(changes) ==
  Concat([s \in 1..Len(FormatSections) |->
    LET sc == FormatSections[s]
        Matches(c) == matchesSection(c, sc.labels)
        sectionChanges == SelectSeq(changes, Matches)
    IN IF Len(sectionChanges) > 0
       THEN << MkSection(Slug(sc.name), sc.name,
                 [k \in 1..Len(sectionChanges) |-> DetItem(sectionChanges[k])]) >>
       ELSE <<>>])

\* generateDeterministicReleaseNotes once the configured sections are built:
\* the 'Other Changes' section, the title and the summary
DetFinish(changes, version, secs) ==
  LET matchedIds == UNION { {secs[i].items[k].id : k \in 1..Len(secs[i].items)} :
                            i \in 1..Len(secs) }
      Unmatched(c) == c.id \notin matchedIds
      WithOther(unmatchedChanges) ==
        IF Len(unmatchedChanges) > 0
        THEN Append(secs, MkSection(<<"other">>, <<"Other Changes">>,
                      [k \in 1..Len(unmatchedChanges) |-> DetItem(unmatchedChanges[k])]))
        ELSE secs
      Build(sections) ==
        MkData(IF version # <<>> THEN version \o <<" Release">> ELSE DefaultTitle,
               ArraySections(sections), <<>>,
               <<"This release includes ", ToString(Len(changes)), " change",
                 IF Len(changes) = 1 THEN "" ELSE "s", " across ",
                 ToString(Len(sections)), " categor",
                 IF Len(sections) = 1 THEN "y" ELSE "ies", ".">>)
  IN Bind(Bind(SelectSeq(changes, Unmatched), WithOther), Build)

\* ClaudeGenerator.generateDeterministicReleaseNotes
generateDeterministicReleaseNotes(changes, version) ==
  LET Finish(secs) == DetFinish(changes, version, secs)
  IN Bind(DetConfigSections(changes), Finish)

(***************************************************************************)
(* ClaudeGenerator.generateReleaseNotes as a state machine                 *)
(***************************************************************************)
\* Largest elapsed time (Date.now() - startTime) the model reports
MaxElapsed == 1

\* Outcomes of callClaude: without credentials it throws; otherwise the CLI
\* returns stdout.trim(), or fails and the SDK returns message.result (which
\* may be undefined), or both fail and a GenerationError is thrown
callClaude(hasAuth) ==
  IF ~hasAuth THEN {Raised}
  ELSE TextResponses \cup {Undefined, Raised}

\* Mutation: the parse of the retry response is left outside the try block
TryRegionWithoutRetryParse == {"build", "call1", "validate", "call2"}

\* The positions of generateReleaseNotes that lie inside its try block
TryRegion == {"build", "call1", "validate", "call2", "parseRetry"}

\* Mutation: an error of the first call leads to the simplified retry
OnThrowRetryAfterError(pc) ==
  IF pc = "call1" THEN "call2"
  ELSE IF pc \in TryRegion THEN "fallback" ELSE "raised"

\* Where control goes when the step at position pc throws; "raised" is the
\* terminal position of an error that leaves generateReleaseNotes
OnThrow(pc) == IF pc \in TryRegion THEN "fallback" ELSE "raised"

\* Mutation: the first document is returned whatever validateReleaseData said
AfterValidateAcceptAll(isValid) == "accept"

\* Where control goes after validateReleaseData returned
AfterValidate(isValid) == IF isValid THEN "accept" ELSE "call2"

NoResult ==
  [status |-> "pending", releaseData |-> NoJson, processingTime |-> 0,
   wasValidated |-> FALSE, fallbackUsed |-> FALSE, path |-> "none"]

Returned(data, t, validated, fallback, path) ==
  [status |-> "returned", releaseData |-> data, processingTime |-> t,
   wasValidated |-> validated, fallbackUsed |-> fallback, path |-> path]

Request(kind, changes) == [kind |-> kind, changes |-> changes]

\* The (wasValidated, fallbackUsed) pair of each return statement
MetaOf(path) ==
  CASE path = "first" -> <<TRUE, FALSE>>
    [] path = "retry" -> <<FALSE, TRUE>>
    [] path = "deterministic" -> <<FALSE, TRUE>>

Paths == {"first", "retry", "deterministic"}

InitGen ==
  /\ gpc = "build"
  /\ genv \in BOOLEAN
  /\ gchanges \in GenChangeSets
  /\ gversion \in GenVersions
  /\ gresp = Undefined
  /\ gdata = NoJson
  /\ gcalls = <<>>
  /\ gresult = NoResult
  /\ gsteps = 0
  /\ RedactorIdle
  /\ WriterIdle
  /\ NormalizerIdle
  /\ PipelineIdle

\* buildPrompt: serialises the changes; cannot fail
BuildPrompt ==
  /\ gsteps' = gsteps + 1
  /\ gpc = "build"
  /\ gpc' = "call1"
  /\ UNCHANGED <<rvars, wvars, nvars, pvars, genv, gchanges, gversion, gresp, gdata, gcalls, gresult>>

\* const result = await this.callClaude(prompt)
CallExternal ==
  /\ gsteps' = gsteps + 1
  /\ gpc = "call1"
  /\ \E r \in callClaude(genv) :
       /\ gcalls' = Append(gcalls, [req |-> Request("full", gchanges), resp |-> r])
       /\ gresp' = r
       /\ gpc' = IF r.kind = "raise" THEN OnThrow("call1") ELSE "validate"
  /\ UNCHANGED <<rvars, wvars, nvars, pvars, genv, gchanges, gversion, gdata, gresult>>

\* parseClaudeResponse(result); validateReleaseData(releaseData)
Validate ==
  /\ gsteps' = gsteps + 1
  /\ gpc = "validate"
  /\ \E p \in {parseClaudeResponse(gresp)} :
     \E v \in {validateReleaseData(p.data)} :
        /\ gdata' = IF p.ok THEN p.data ELSE gdata
        /\ gpc' = IF ~p.ok \/ v.threw THEN OnThrow("validate")
                  ELSE AfterValidate(v.isValid)
  /\ UNCHANGED <<rvars, wvars, nvars, pvars, genv, gchanges, gversion, gresp, gcalls, gresult>>

\* return { releaseData, wasValidated: true, fallbackUsed: false }
Accept ==
  /\ gsteps' = gsteps + 1
  /\ gpc = "accept"
  /\ \E t \in 0..MaxElapsed :
       gresult' = Returned(gdata, t, MetaOf("first")[1], MetaOf("first")[2], "first")
  /\ gpc' = "done"
  /\ UNCHANGED <<rvars, wvars, nvars, pvars, genv, gchanges, gversion, gresp, gdata, gcalls>>

\* callClaudeWithFallback: the simplified prompt over changes.slice(0, 10)
RetrySimplified ==
  /\ gsteps' = gsteps + 1
  /\ gpc = "call2"
  /\ \E r \in callClaude(genv) :
       /\ gcalls' = Append(gcalls, [req |-> Request("simplified", Take(gchanges, 10)),
                                    resp |-> r])
       /\ gresp' = r
       /\ gpc' = IF r.kind = "raise" THEN OnThrow("call2") ELSE "parseRetry"
  /\ UNCHANGED <<rvars, wvars, nvars, pvars, genv, gchanges, gversion, gdata, gresult>>

\* const fallbackData = parseClaudeResponse(fallbackResult); returned as is
AcceptRetry ==
  /\ gsteps' = gsteps + 1
  /\ gpc = "parseRetry"
  /\ \E p \in {parseClaudeResponse(gresp)} :
        IF p.ok
        THEN /\ \E t \in 0..MaxElapsed :
                  gresult' = Returned(p.data, t, MetaOf("retry")[1], MetaOf("retry")[2],
                                      "retry")
                        /\ gpc' = "done"
        ELSE /\ gpc' = OnThrow("parseRetry")
             /\ UNCHANGED gresult
  /\ UNCHANGED <<rvars, wvars, nvars, pvars, genv, gchanges, gversion, gresp, gdata, gcalls>>

\* catch (error) { generateDeterministicReleaseNotes(changes, version) ... }
DeterministicFallback ==
  /\ gsteps' = gsteps + 1
  /\ gpc = "fallback"
  /\ \E t \in 0..MaxElapsed, d \in {generateDeterministicReleaseNotes(gchanges, gversion)} :
       gresult' = Returned(d, t, MetaOf("deterministic")[1],
                           MetaOf("deterministic")[2], "deterministic")
  /\ gpc' = "done"
  /\ UNCHANGED <<rvars, wvars, nvars, pvars, genv, gchanges, gversion, gresp, gdata, gcalls>>

NextGen ==
  \/ BuildPrompt
  \/ CallExternal
  \/ Validate
  \/ Accept
  \/ RetrySimplified
  \/ AcceptRetry
  \/ DeterministicFallback

SpecGen == InitGen /\ [][NextGen]_vars


(***************************************************************************)
(* Properties of ClaudeGenerator.generateReleaseNotes                      *)
(***************************************************************************)
RunFinished == gpc = "done"

\* Every position has a step that is enabled whenever the run is there, except
\* "done" (the result was returned) and "raised" (an error left the method)
GenPositions ==
  {"build", "call1", "validate", "accept", "call2", "parseRetry", "fallback",
   "done", "raised"}

\* build, call, validate, retry, parse of the retry, fallback
MaxRunSteps == 6

AllCallsRaised ==
  Len(gcalls) >= 1 /\ \A i \in 1..Len(gcalls) : gcalls[i].resp.kind = "raise"

\* C1: generateReleaseNotes never raises to its caller and every run ends
\* with a returned result that carries a release document and the metadata
\* (processingTime, wasValidated, fallbackUsed), whatever the external call
\* does on the first call and on the retry.
C1_NeverRaisesAlwaysReturns ==
  /\ gpc \in GenPositions \ {"raised"}
  /\ gsteps <= MaxRunSteps
  /\ RunFinished =>
       /\ gresult.status = "returned"
       /\ gresult.releaseData # NoJson
       /\ gresult.releaseData.releaseTitle # <<>>
       /\ gresult.processingTime \in 0..MaxElapsed
       /\ gresult.wasValidated \in BOOLEAN
       /\ gresult.fallbackUsed \in BOOLEAN

\* C1 witness: the first response failed validation, the retry raised, and the
\* run still returned a document
C1_Witness ==
  /\ RunFinished
  /\ Len(gcalls) = 2
  /\ gcalls[2].resp.kind = "raise"
  /\ gresult.status = "returned"

\* C2: when every external call raises, the run reports fallbackUsed and the
\* returned document satisfies every Validation Rule, for every record set
\* (the empty one included).
C2_FallbackDocumentIsValid ==
  (RunFinished /\ AllCallsRaised) =>
     /\ gresult.fallbackUsed
     /\ ValidationErrors(gresult.releaseData) = <<>>

\* C3: the (wasValidated, fallbackUsed) pairs reported by the three terminal
\* outcomes (first response accepted, retry accepted unvalidated,
\* deterministic fallback) are pairwise different.
C3_OutcomesDistinguishable ==
  RunFinished =>
    \A other \in Paths \ {gresult.path} :
       <<gresult.wasValidated, gresult.fallbackUsed>> # MetaOf(other)

NoMatch == 0 - 1

\* the least / greatest element of a non-empty set of integers
MinOf(S) == CHOOSE x \in S : \A y \in S : x <= y
MaxOf(S) == CHOOSE x \in S : \A y \in S : x >= y

Letters == LowerLetters \cup UpperLetters

\* \w
WordChars == Letters \cup Digits \cup {"_"}

\* [a-f0-9] under the i flag
HexChars == Digits \cup {"a","b","c","d","e","f","A","B","C","D","E","F"}

\* [A-Za-z0-9._%+-]
EmailLocalChars == Letters \cup Digits \cup {".", "_", "%", "+", "-"}

\* [A-Za-z0-9.-]
EmailDomainChars == Letters \cup Digits \cup {".", "-"}

\* [A-Z|a-z]
EmailTldChars == Letters \cup {"|"}

\* [-.]
PhoneSeparators == {"-", "."}

IsWordAt(t, i) == i >= 1 /\ i <= Len(t) /\ t[i] \in WordChars

\* \b at offset p
WordBoundary(t, p) == IsWordAt(t, p) # IsWordAt(t, p + 1)

\* length of the longest run of characters of class S that starts at offset p
RunLen(t, p, S) ==
  CHOOSE k \in 0..(Len(t) - p) :
    /\ \A j \in 1..k : t[p + j] \in S
    /\ (k = Len(t) - p \/ t[p + k + 1] \notin S)

\* \d{n} at offset p
DigitsAt(t, p, n) == p + n <= Len(t) /\ \A j \in 1..n : t[p + j] \in Digits

\* the {32,} of hashPattern
MinHashLen == 32

\* hashPattern = /\b[a-f0-9]{32,}\b/gi
HashEnd(t, p) ==
  IF ~WordBoundary(t, p) THEN NoMatch
  ELSE LET ends == {k \in MinHashLen..RunLen(t, p, HexChars) : WordBoundary(t, p + k)}
       IN IF ends = {} THEN NoMatch ELSE p + MaxOf(ends)

\* [-.]? at offset p (greedy)
SkipSeparator(t, p) ==
  IF p < Len(t) /\ t[p + 1] \in PhoneSeparators THEN p + 1 ELSE p

\* phonePattern = /\b\d{3}[-.]?\d{3}[-.]?\d{4}\b/g
PhoneEnd(t, p) ==
  IF ~(WordBoundary(t, p) /\ DigitsAt(t, p, 3)) THEN NoMatch
  ELSE \* after the separator no alternative remains for the next \d
    IF ~DigitsAt(t, SkipSeparator(t, p + 3), 3) THEN NoMatch
    ELSE IF ~DigitsAt(t, SkipSeparator(t, SkipSeparator(t, p + 3) + 3), 4) THEN NoMatch
    ELSE IF ~WordBoundary(t, SkipSeparator(t, SkipSeparator(t, p + 3) + 3) + 4) THEN NoMatch
    ELSE SkipSeparator(t, SkipSeparator(t, p + 3) + 3) + 4

\* \d{1,3}\. at offset p (NoMatch passes through)
OctetDot(t, p) ==
  IF p < 0 THEN NoMatch
  ELSE LET ends == {k \in 1..3 : /\ DigitsAt(t, p, k)
                                 /\ p + k < Len(t)
                                 /\ t[p + k + 1] = "."}
       IN IF ends = {} THEN NoMatch ELSE p + MaxOf(ends) + 1

\* \d{1,3}\b at offset p (NoMatch passes through)
LastOctet(t, p) ==
  IF p < 0 THEN NoMatch
  ELSE LET ends == {k \in 1..3 : DigitsAt(t, p, k) /\ WordBoundary(t, p + k)}
       IN IF ends = {} THEN NoMatch ELSE p + MaxOf(ends)

\* ipPattern = /\b(?:\d{1,3}\.){3}\d{1,3}\b/g
IpEnd(t, p) ==
  IF ~WordBoundary(t, p) THEN NoMatch
  ELSE LastOctet(t, OctetDot(t, OctetDot(t, OctetDot(t, p))))

\* [A-Z|a-z]{2,}\b at offset p
EmailTldEnd(t, p) ==
  LET ends == {j \in 2..RunLen(t, p, EmailTldChars) : WordBoundary(t, p + j)}
  IN IF ends = {} THEN NoMatch ELSE p + MaxOf(ends)

\* [A-Za-z0-9.-]+\.[A-Z|a-z]{2,}\b at offset p
EmailDomainEnd(t, p) ==
  LET ends == {k \in 1..RunLen(t, p, EmailDomainChars) :
                 /\ p + k < Len(t)
                 /\ t[p + k + 1] = "."
                 /\ EmailTldEnd(t, p + k + 1) >= 0}
  IN IF ends = {} THEN NoMatch ELSE EmailTldEnd(t, p + MaxOf(ends) + 1)

\* emailPattern = /\b[A-Za-z0-9._%+-]+@[A-Za-z0-9.-]+\.[A-Z|a-z]{2,}\b/g
EmailEnd(t, p) ==
  IF ~WordBoundary(t, p) THEN NoMatch
  ELSE LET ends == {k \in 1..RunLen(t, p, EmailLocalChars) :
                      p + k < Len(t) /\ t[p + k + 1] = "@"}
       IN IF ends = {} THEN NoMatch ELSE EmailDomainEnd(t, p + MaxOf(ends) + 1)
\* One element of a configured pattern: a literal character, optional when
\* the source follows it with `?`
Lit(s) == [i \in 1..Len(s) |-> [c |-> s[i], opt |-> FALSE]]
Optional(ch) == <<[c |-> ch, opt |-> TRUE]>>

\* DEFAULT_CONFIG.redaction.redactPatterns
p_apiKey == Lit(<<"a","p","i">>) \o Optional("_") \o Lit(<<"k","e","y">>)
p_secret == Lit(<<"s","e","c","r","e","t">>)
p_password == Lit(<<"p","a","s","s","w","o","r","d">>)
p_token == Lit(<<"t","o","k","e","n">>)
p_sshRsa == Lit(<<"s","s","h","-","r","s","a">>)
p_privateKey ==
  Lit(<<"-","-","-","-","-","B","E","G","I","N"," ","P","R","I","V","A","T","E"," ",
        "K","E","Y","-","-","-","-","-">>)
DefaultRedactPatterns ==
  <<p_apiKey, p_secret, p_password, p_token, p_sshRsa, p_privateKey>>

RECURSIVE PatternEnd(_, _, _, _)
\* new RegExp(pattern, 'gi') at offset p, from element k of the pattern on:
\* an optional element is tried first with, then without its character
PatternEnd(pat, k, t, p) ==
  IF k > Len(pat) THEN p
  ELSE IF p < Len(t) /\ LowerChar(t[p + 1]) = LowerChar(pat[k].c)
       THEN IF pat[k].opt
            THEN Bind(PatternEnd(pat, k + 1, t, p + 1),
                      LAMBDA e : IF e >= 0 THEN e ELSE PatternEnd(pat, k + 1, t, p))
            ELSE PatternEnd(pat, k + 1, t, p + 1)
       ELSE IF pat[k].opt THEN PatternEnd(pat, k + 1, t, p) ELSE NoMatch

\* replacement tokens of redactText
tok_redacted == <<"[","R","E","D","A","C","T","E","D","]">>
tok_email == <<"[","R","E","D","A","C","T","E","D","-","E","M","A","I","L","]">>
tok_hash == <<"[","R","E","D","A","C","T","E","D","-","H","A","S","H","]">>
tok_phone == <<"[","R","E","D","A","C","T","E","D","-","P","H","O","N","E","]">>
tok_ip == <<"[","R","E","D","A","C","T","E","D","-","I","P","]">>

\* The RegExp objects of the instance.  `how` is the way redactText probes
\* the text: String.prototype.match or RegExp.prototype.test
ConfigRegExp(pats, i) ==
  [kind |-> "config", idx |-> i, pat |-> pats[i], how |-> "match", token |-> tok_redacted]
emailPattern == [kind |-> "email", idx |-> 0, pat |-> <<>>, how |-> "test", token |-> tok_email]
hashPattern == [kind |-> "hash", idx |-> 0, pat |-> <<>>, how |-> "test", token |-> tok_hash]
phonePattern == [kind |-> "phone", idx |-> 0, pat |-> <<>>, how |-> "test", token |-> tok_phone]
ipPattern == [kind |-> "ip", idx |-> 0, pat |-> <<>>, how |-> "test", token |-> tok_ip]

\* this.redactionPatterns
redactionPatterns(cfg) ==
  [i \in 1..Len(cfg.redactPatterns) |-> ConfigRegExp(cfg.redactPatterns, i)]

\* end offset of the match of rx that starts at offset p, or NoMatch
MatchEnd(rx, t, p) ==
  CASE rx.kind = "config" -> PatternEnd(rx.pat, 1, t, p)
    [] rx.kind = "email" -> EmailEnd(t, p)
    [] rx.kind = "hash" -> HashEnd(t, p)
    [] rx.kind = "phone" -> PhoneEnd(t, p)
    [] rx.kind = "ip" -> IpEnd(t, p)

\* start offset of the first match at or after offset from, or NoMatch
FindFrom(rx, t, from) ==
  LET starts == {p \in from..(Len(t) - 1) : MatchEnd(rx, t, p) >= 0}
  IN IF starts = {} THEN NoMatch ELSE MinOf(starts)

\* RegExp.prototype.test of a global expression whose lastIndex is li: the
\* search starts at li; a hit leaves lastIndex at the end of the match, a
\* miss resets it to 0
Test(rx, t, li) ==
  Bind(FindFrom(rx, t, li),
       LAMBDA m : IF m < 0 THEN [found |-> FALSE, lastIndex |-> 0]
                  ELSE [found |-> TRUE, lastIndex |-> MatchEnd(rx, t, m)])

RECURSIVE ReplaceFrom(_, _, _, _)
\* the part of text.replace(rx, token) that lies after offset from
ReplaceFrom(rx, t, from, token) ==
  Bind(FindFrom(rx, t, from),
       LAMBDA m : IF m < 0 THEN SubSeq(t, from + 1, Len(t))
                  ELSE Bind(MatchEnd(rx, t, m),
                            LAMBDA e : SubSeq(t, from + 1, m) \o token
                                       \o ReplaceFrom(rx, t, e, token)))

\* text.replace(rx, token) for a global expression: every match, left to
\* right from offset 0 whatever lastIndex was; lastIndex is 0 afterwards
ReplaceAll(rx, t, token) == ReplaceFrom(rx, t, 0, token)

\* lastIndex of every RegExp of a new instance
FreshLastIndex(cfg) ==
  [email |-> 0, hash |-> 0, phone |-> 0, ip |-> 0,
   config |-> [i \in 1..Len(cfg.redactPatterns) |-> 0]]

GetLastIndex(st, rx) == IF rx.kind = "config" THEN st.config[rx.idx] ELSE st[rx.kind]

SetLastIndex(st, rx, v) ==
  IF rx.kind = "config" THEN [st EXCEPT !.config[rx.idx] = v]
  ELSE [st EXCEPT ![rx.kind] = v]
(***************************************************************************)
(* Redactor: redactText, redactChange, redactChanges                       *)
(*                                                                         *)
(* An optional string is [def, v]: def is FALSE for `undefined`.           *)
(***************************************************************************)
Some(v) == [def |-> TRUE, v |-> v]
None == [def |-> FALSE, v |-> <<>>]

\* JavaScript truthiness of an optional string
Truthy(o) == o.def /\ o.v # <<>>

\* String(undefined), the text RegExp.prototype.test sees for a missing value
s_undefined == <<"u","n","d","e","f","i","n","e","d">>

\* the probes redactText makes, in order
RedactDetectors(cfg) ==
  redactionPatterns(cfg)
    \o (IF cfg.emailMask THEN <<emailPattern>> ELSE <<>>)
    \o <<hashPattern, phonePattern, ipPattern>>

\* One block of redactText.  acc is [text, was, st, threw]: redactedText,
\* wasRedacted, the lastIndex values and whether a TypeError was raised.
\* The probe runs on the ORIGINAL text, the replacement on redactedText.
ApplyDetector(rx, text, acc) ==
  IF acc.threw THEN acc
  ELSE IF rx.how = "match"
  THEN \* text.match(pattern): undefined has no method match
       IF ~text.def THEN [acc EXCEPT !.threw = TRUE]
       ELSE IF FindFrom(rx, text.v, 0) >= 0
            THEN [acc EXCEPT !.text = Some(ReplaceAll(rx, acc.text.v, rx.token)),
                             !.was = TRUE,
                             !.st = SetLastIndex(acc.st, rx, 0)]
            ELSE [acc EXCEPT !.st = SetLastIndex(acc.st, rx, 0)]
  ELSE Bind(Test(rx, IF text.def THEN text.v ELSE s_undefined, GetLastIndex(acc.st, rx)),
            LAMBDA r :
              IF ~r.found THEN [acc EXCEPT !.st = SetLastIndex(acc.st, rx, r.lastIndex)]
              ELSE IF ~acc.text.def
                   THEN [acc EXCEPT !.threw = TRUE,
                                    !.st = SetLastIndex(acc.st, rx, r.lastIndex)]
                   ELSE [acc EXCEPT !.text = Some(ReplaceAll(rx, acc.text.v, rx.token)),
                                    !.was = TRUE,
                                    !.st = SetLastIndex(acc.st, rx, 0)])

RECURSIVE ApplyDetectors(_, _, _, _)
ApplyDetectors(dets, k, text, acc) ==
  IF k > Len(dets) THEN acc
  ELSE Bind(ApplyDetector(dets[k], text, acc),
            LAMBDA a : ApplyDetectors(dets, k + 1, text, a))

\* redactText(text, field) on an instance whose lastIndex values are st
redactText(cfg, text, st) ==
  ApplyDetectors(RedactDetectors(cfg), 1, text,
                 [text |-> text, was |-> FALSE, st |-> st, threw |-> FALSE])

\* One field of redactChange: redactText when the guard holds and nothing
\* was raised before, the field as it is otherwise
RedactField(cfg, guard, text, prev) ==
  IF prev.threw \/ ~guard
  THEN [text |-> text, was |-> FALSE, st |-> prev.st, threw |-> prev.threw]
  ELSE redactText(cfg, text, prev.st)

s_ellipsis == <<".", ".", ".">>

\* String.prototype.substring(0, n): a negative n counts as 0
Substring0(s, n) == SubSeq(s, 1, IF n < 0 THEN 0 ELSE IF n > Len(s) THEN Len(s) ELSE n)

\* `if (redactedChange.body && redactedChange.body.length > truncBodyTo)`
NeedsTruncation(cfg, body) == Truthy(body) /\ Len(body.v) > cfg.truncBodyTo

\* body.substring(0, truncBodyTo - 3) + '...'
TruncateBody(cfg, body) ==
  IF NeedsTruncation(cfg, body)
  THEN Some(Substring0(body.v, cfg.truncBodyTo - 3) \o s_ellipsis)
  ELSE body

RECURSIVE RedactLabels(_, _, _, _)
\* the loop over change.labels, from label k on; acc is [labels, was, st, threw]
RedactLabels(cfg, labels, k, acc) ==
  IF k > Len(labels) \/ acc.threw THEN acc
  ELSE Bind(redactText(cfg, Some(labels[k]), acc.st),
            LAMBDA r : RedactLabels(cfg, labels, k + 1,
                         [labels |-> Append(acc.labels, r.text.v),
                          was |-> acc.was \/ r.was,
                          st |-> r.st,
                          threw |-> r.threw]))

\* the labels block of redactChange
RedactLabelsField(cfg, labels, prev) ==
  IF prev.threw \/ ~labels.def
  THEN [labels |-> labels.v, was |-> FALSE, st |-> prev.st, threw |-> prev.threw]
  ELSE RedactLabels(cfg, labels.v, 1,
                    [labels |-> <<>>, was |-> FALSE, st |-> prev.st, threw |-> FALSE])

\* redactChange(change) on an instance whose lastIndex values are st
redactChange(cfg, change, st) ==
  Bind(RedactField(cfg, TRUE, change.title,
                   [text |-> None, was |-> FALSE, st |-> st, threw |-> FALSE]),
  LAMBDA rt :
  Bind(RedactField(cfg, Truthy(change.body), change.body, rt),
  LAMBDA rb :
  Bind(RedactField(cfg, Truthy(change.author) /\ cfg.emailMask, change.author, rb),
  LAMBDA ra :
  Bind(RedactLabelsField(cfg, change.labels, ra),
  LAMBDA rl :
    [redactedChange |->
       [change EXCEPT !.title = rt.text,
                      !.body = IF Truthy(change.body) THEN TruncateBody(cfg, rb.text)
                               ELSE change.body,
                      !.author = ra.text,
                      !.labels = [def |-> change.labels.def, v |-> rl.labels]],
     patternBody |-> IF Truthy(change.body) THEN rb.text ELSE change.body,
     wasRedacted |-> \/ rt.was \/ rb.was \/ ra.was \/ rl.was
                     \/ (Truthy(change.body) /\ NeedsTruncation(cfg, rb.text)),
     st |-> rl.st,
     threw |-> rl.threw]))))

RECURSIVE RedactLoop(_, _, _, _)
\* `for (const change of changes)` of redactChanges, from change k on
RedactLoop(cfg, changes, k, acc) ==
  IF k > Len(changes) \/ acc.threw THEN acc
  ELSE Bind(redactChange(cfg, changes[k], acc.st),
            LAMBDA r : RedactLoop(cfg, changes, k + 1,
                         [redactedChanges |-> Append(acc.redactedChanges, r.redactedChange),
                          patternBodies |-> Append(acc.patternBodies, r.patternBody),
                          redactedCount |-> acc.redactedCount + (IF r.wasRedacted THEN 1 ELSE 0),
                          st |-> r.st,
                          threw |-> r.threw]))

\* redactChanges(changes): the returned value (threw stands for the
\* NormalizationError of the catch block) and the lastIndex values it leaves;
\* patternBodies is history: every body as it was before the truncation step
redactChanges(cfg, changes, st) ==
  Bind(RedactLoop(cfg, changes, 1,
                  [redactedChanges |-> <<>>, patternBodies |-> <<>>, redactedCount |-> 0,
                   st |-> st, threw |-> FALSE]),
       LAMBDA r :
         [threw |-> r.threw,
          redactedChanges |-> IF r.threw THEN <<>> ELSE r.redactedChanges,
          patternBodies |-> IF r.threw THEN <<>> ELSE r.patternBodies,
          totalChanges |-> IF r.threw THEN 0 ELSE Len(changes),
          redactedCount |-> IF r.threw THEN 0 ELSE r.redactedCount,
          st |-> r.st])
(***************************************************************************)
(* Redactor: detectSensitiveContent                                        *)
(***************************************************************************)
RECURSIVE Join(_, _)
\* Array.prototype.join(sep) over strings
Join(parts, sep) ==
  IF parts = <<>> THEN <<>>
  ELSE IF Len(parts) = 1 THEN parts[1]
  ELSE parts[1] \o sep \o Join(Tail(parts), sep)

\* what join() makes of an optional string: undefined joins as ''
JoinText(o) == IF o.def THEN o.v ELSE <<>>

\* [change.title, change.body, change.author, ...(change.labels || [])].join(' ')
AllText(change) ==
  Join(<<JoinText(change.title), JoinText(change.body), JoinText(change.author)>>
         \o (IF change.labels.def THEN change.labels.v ELSE <<>>),
       <<" ">>)

\* the RegExp objects analyzeSensitiveContent calls test() on, in order
DetectProbes(cfg) ==
  redactionPatterns(cfg) \o <<emailPattern, phonePattern, ipPattern, hashPattern>>

RECURSIVE ProbeLoop(_, _, _, _)
\* the pattern.test(allText) calls from probe k on; acc is [reasons, st]
ProbeLoop(dets, k, text, acc) ==
  IF k > Len(dets) THEN acc
  ELSE Bind(Test(dets[k], text, GetLastIndex(acc.st, dets[k])),
            LAMBDA r : ProbeLoop(dets, k + 1, text,
                         [reasons |-> IF r.found
                                      THEN Append(acc.reasons,
                                                  [kind |-> dets[k].kind, n |-> dets[k].idx])
                                      ELSE acc.reasons,
                          st |-> SetLastIndex(acc.st, dets[k], r.lastIndex)]))

secretKeywords ==
  << <<"p","a","s","s","w","o","r","d">>, <<"t","o","k","e","n">>, <<"k","e","y">>,
     <<"s","e","c","r","e","t">>, <<"c","r","e","d","e","n","t","i","a","l">>,
     <<"a","u","t","h">> >>

\* allText.toLowerCase().includes(keyword), for each keyword in order
KeywordReasons(text) ==
  SelectSeq([i \in 1..Len(secretKeywords) |-> [kind |-> "keyword", n |-> i]],
            LAMBDA r : Includes(ToLowerCase(text), secretKeywords[r.n]))

\* analyzeSensitiveContent(change): the reasons and the lastIndex values left
analyzeSensitiveContent(cfg, change, st) ==
  Bind(AllText(change),
       LAMBDA text :
         Bind(ProbeLoop(DetectProbes(cfg), 1, text, [reasons |-> <<>>, st |-> st]),
              LAMBDA a : [reasons |-> a.reasons \o KeywordReasons(text), st |-> a.st]))

RECURSIVE SumReasons(_)
\* suspiciousChanges.reduce((sum, item) => sum + item.reasons.length, 0)
SumReasons(items) ==
  IF items = <<>> THEN 0 ELSE Len(Head(items).reasons) + SumReasons(Tail(items))

\* Mutation: the thresholds are compared with >= instead of >
calculateRiskLevelInclusive(suspiciousChanges, totalChanges) ==
  IF Len(suspiciousChanges) = 0 THEN "low"
  ELSE LET n == Len(suspiciousChanges)
           sum == SumReasons(suspiciousChanges)
       IN IF 2 * n >= totalChanges \/ sum >= 3 * n THEN "high"
          ELSE IF 5 * n >= totalChanges \/ 2 * sum >= 3 * n THEN "medium"
          ELSE "low"

\* calculateRiskLevel: the quotients are compared after cross-multiplying,
\*   n / total > 0.5  <=>  2n > total      sum / n > 3    <=>  sum > 3n
\*   n / total > 0.2  <=>  5n > total      sum / n > 1.5  <=>  2 sum > 3n
calculateRiskLevel(suspiciousChanges, totalChanges) ==
  IF Len(suspiciousChanges) = 0 THEN "low"
  ELSE LET n == Len(suspiciousChanges)
           sum == SumReasons(suspiciousChanges)
       IN IF 2 * n > totalChanges \/ sum > 3 * n THEN "high"
          ELSE IF 5 * n > totalChanges \/ 2 * sum > 3 * n THEN "medium"
          ELSE "low"

RECURSIVE DetectLoop(_, _, _, _)
\* `for (const change of changes)` of detectSensitiveContent, from change k on
DetectLoop(cfg, changes, k, acc) ==
  IF k > Len(changes) THEN acc
  ELSE Bind(analyzeSensitiveContent(cfg, changes[k], acc.st),
            LAMBDA r : DetectLoop(cfg, changes, k + 1,
                         [suspiciousChanges |->
                            IF Len(r.reasons) > 0
                            THEN Append(acc.suspiciousChanges,
                                        [change |-> changes[k], reasons |-> r.reasons])
                            ELSE acc.suspiciousChanges,
                          st |-> r.st]))

\* detectSensitiveContent(changes): the returned value and the lastIndex
\* values it leaves
detectSensitiveContent(cfg, changes, st) ==
  Bind(DetectLoop(cfg, changes, 1, [suspiciousChanges |-> <<>>, st |-> st]),
       LAMBDA r :
         [suspiciousChanges |-> r.suspiciousChanges,
          overallRisk |-> calculateRiskLevel(r.suspiciousChanges, Len(changes)),
          st |-> r.st])
(***************************************************************************)
(* Redactor: configurations, records and the calls made on one instance    *)
(***************************************************************************)
\* DEFAULT_CONFIG.redaction.truncBodyTo
DefaultTruncBodyTo == 300

\* truncBodyTo values that validateRedaction accepts (any value >= 0)
TruncLengths == {2, 13, DefaultTruncBodyTo}

RedactionConfigs ==
  [redactPatterns : {<<>>, DefaultRedactPatterns},
   emailMask : BOOLEAN,
   truncBodyTo : TruncLengths]

Rep(ch, n) == [i \in 1..n |-> ch]

t_fixLogin == <<"F","i","x"," ","l","o","g","i","n">>
t_mail == <<"m","a","i","l"," ","a","@","b",".","c","o">>
t_address == <<"a","@","b",".","c","o">>
t_secretDigits == <<"s","e","c","r","e","t","5","5","5","1","2","3","4","5","6","7">>
t_bump == <<"B","u","m","p"," ","d","e","p","s">>
t_digits14 == <<"1","2","3","4","5","6","7","8","9","0","1","2","3","4">>
t_host == <<"1","0",".","0",".","0",".","1">>
t_token == <<"t","o","k","e","n">>
t_call == <<"c","a","l","l"," ","5","5","5","-","1","2","3","-","4","5","6","7">>
t_bug == <<"b","u","g">>
t_digest == Rep("a", MinHashLen)

MkChange(id, title, body, author, labels) ==
  [id |-> id, title |-> title, body |-> body, author |-> author, labels |-> labels]

Labels(ls) == [def |-> TRUE, v |-> ls]
NoLabels == [def |-> FALSE, v |-> <<>>]

ch_clean == MkChange("c1", Some(t_fixLogin), None, None, Labels(<<t_bug>>))
ch_mail == MkChange("c2", Some(t_mail), None, Some(t_address), Labels(<<>>))
ch_secret == MkChange("c3", Some(t_secretDigits), Some(<<>>), None, NoLabels)
ch_digits == MkChange("c4", Some(t_bump), Some(t_digits14), Some(t_host), Labels(<<t_token>>))
ch_digest == MkChange("c5", Some(t_digest), Some(t_call), None, Labels(<<t_bug, t_address>>))
\* an address, a telephone number, a host address and a keyword in one record
ch_loaded == MkChange("c7", Some(t_mail), Some(t_call), Some(t_host), Labels(<<t_token>>))
ch_untitled == MkChange("c6", None, None, None, NoLabels)

RedactChangePool == {ch_clean, ch_mail, ch_secret, ch_digits, ch_digest, ch_untitled}

\* record sets handed to the Redactor
RedactInputs ==
  {<<>>} \cup {<<c>> : c \in RedactChangePool} \cup {<<ch_clean, ch_mail>>, <<ch_digest, ch_secret>>}
    \cup {<<ch_clean, ch_clean, ch_clean, ch_clean, c>> : c \in {ch_mail, ch_secret}}
    \cup {<<ch_clean, ch_loaded>>}

\* calls made on one instance
MaxRedactorCalls == 2

NoRedaction ==
  [threw |-> FALSE, redactedChanges |-> <<>>, totalChanges |-> 0, redactedCount |-> 0,
   patternBodies |-> <<>>]
NoDetection == [suspiciousChanges |-> <<>>, overallRisk |-> "low"]

\* new Redactor(config)
InitRedact ==
  /\ rconfig \in RedactionConfigs
  /\ rlastIndex = FreshLastIndex(rconfig)
  /\ rinput = <<>>
  /\ routput = NoRedaction
  /\ rdetect = NoDetection
  /\ rop = "new"
  /\ rcalls = 0
  /\ GeneratorIdle
  /\ WriterIdle
  /\ NormalizerIdle
  /\ PipelineIdle

\* what a redactChanges(changes) call does to the instance and returns
RedactStep(changes, op) ==
  /\ rcalls < MaxRedactorCalls
  /\ \E r \in {redactChanges(rconfig, changes, rlastIndex)} :
       /\ routput' = [threw |-> r.threw, redactedChanges |-> r.redactedChanges,
                      totalChanges |-> r.totalChanges, redactedCount |-> r.redactedCount,
                      patternBodies |-> r.patternBodies]
       /\ rlastIndex' = r.st
  /\ rinput' = changes
  /\ rop' = op
  /\ rcalls' = rcalls + 1
  /\ rdetect' = NoDetection
  /\ UNCHANGED rconfig

\* a redactChanges(changes) call made on the instance alone
RedactCall(changes, op) ==
  RedactStep(changes, op) /\ UNCHANGED <<gvars, wvars, nvars, pvars>>

\* redactChanges(changes) on records from outside
RedactChanges == \E changes \in RedactInputs : RedactCall(changes, "redact")

\* redactChanges(previous.redactedChanges): a second pass over the output
RedactOutputAgain ==
  /\ rop \in {"redact", "again"}
  /\ ~routput.threw
  /\ RedactCall(routput.redactedChanges, "again")

\* detectSensitiveContent(changes)
DetectSensitiveContent ==
  /\ rcalls < MaxRedactorCalls
  /\ \E changes \in RedactInputs :
     \E r \in {detectSensitiveContent(rconfig, changes, rlastIndex)} :
       /\ rdetect' = [suspiciousChanges |-> r.suspiciousChanges,
                      overallRisk |-> r.overallRisk]
       /\ rlastIndex' = r.st
       /\ rinput' = changes
  /\ rop' = "detect"
  /\ rcalls' = rcalls + 1
  /\ routput' = NoRedaction
  /\ UNCHANGED <<gvars, wvars, nvars, pvars, rconfig>>

NextRedact ==
  \/ RedactChanges
  \/ RedactOutputAgain
  \/ DetectSensitiveContent

SpecRedact == InitRedact /\ [][NextRedact]_vars
(***************************************************************************)
(* Redactor: properties                                                    *)
(***************************************************************************)
\* the last call was a redactChanges that returned
RedactReturned == rop \in {"redact", "again"} /\ ~routput.threw

\* the strings a record carries in title, body, author and labels
TextFields(change) ==
  {f.v : f \in {g \in {change.title, change.body, change.author} : g.def}}
    \cup (IF change.labels.def THEN Range(change.labels.v) ELSE {})

\* t holds a match of a configured pattern or of a built-in detector (the
\* e-mail detector counts when emailMask is on)
HasSensitiveMatch(cfg, t) ==
  \E k \in 1..Len(RedactDetectors(cfg)) : FindFrom(RedactDetectors(cfg)[k], t, 0) >= 0

\* C5: after redactChanges returns, no title, body, author or label of an
\* output record holds a match of a configured pattern or of a built-in
\* detector, whatever the configuration and whatever calls were made on the
\* instance before.
C5_OutputHoldsNoSensitiveMatch ==
  RedactReturned =>
    \A i \in 1..Len(routput.redactedChanges) :
      \A t \in TextFields(routput.redactedChanges[i]) : ~HasSensitiveMatch(rconfig, t)

\* C6: a second redactChanges over the output of a redactChanges returns
\* records identical to that output.
C6_SecondPassIsIdentity ==
  (rop = "again" /\ ~routput.threw) => routput.redactedChanges = rinput
(***************************************************************************)
(* ChangelogWriter: texts                                                  *)
(*                                                                         *)
(* A text of the writer is the sequence of its lines, text.split('\n'):    *)
(* never empty, the empty string is <<<<>>>>, and a text that ends with a  *)
(* line feed has an empty last line.                                       *)
(***************************************************************************)
EmptyText == << <<>> >>

\* '\n'
LineFeed == << <<>>, <<>> >>

\* a + b on texts
TextConcat(a, b) == SubSeq(a, 1, Len(a) - 1) \o <<a[Len(a)] \o b[1]>> \o Tail(b)

\* lines.join('\n'): the text of an array of lines
JoinLines(lines) == IF lines = <<>> THEN EmptyText ELSE lines

\* the text made of the given lines, each followed by a line feed
Terminated(lines) == lines \o EmptyText

\* String.prototype.trim on a text
TextTrim(t) ==
  LET inked == {i \in 1..Len(t) : Trim(t[i]) # <<>>}
  IN IF inked = {} THEN EmptyText
     ELSE IF MinOf(inked) = MaxOf(inked) THEN <<Trim(t[MinOf(inked)])>>
     ELSE <<TrimStart(t[MinOf(inked)])>>
            \o SubSeq(t, MinOf(inked) + 1, MaxOf(inked) - 1)
            \o <<TrimEnd(t[MaxOf(inked)])>>

\* Array.prototype.slice(from) and slice(0, to) with 0-based indexes
SliceFrom(lines, from) == SubSeq(lines, from + 1, Len(lines))
SliceTo(lines, to) == SubSeq(lines, 1, to)

s_h2 == <<"#", "#", " ">>
s_h3 == <<"#", "#", "#", " ">>
\* ' U+2014 ': the atom "U+2014" stands for the em dash character
s_dash == <<" ", "U+2014", " ">>
s_bullet == <<"-", " ">>
s_pull == <<"/","p","u","l","l","/">>

(***************************************************************************)
(* ChangelogWriter: generateReleaseSection                                 *)
(***************************************************************************)
\* extractPRNumber: prUrl.match(/\/pull\/(\d+)/), <<>> for null
extractPRNumber(prUrl) ==
  LET starts == {p \in 0..(Len(prUrl) - 7) :
                   /\ SubSeq(prUrl, p + 1, p + 6) = s_pull
                   /\ prUrl[p + 7] \in Digits}
  IN IF starts = {} THEN <<>>
     ELSE <<"#">> \o SubSeq(prUrl, MinOf(starts) + 7,
                            MinOf(starts) + 6 + RunLen(prUrl, MinOf(starts) + 6, Digits))

\* one `- ...` line of a section
Bullet(cfg, item) ==
  s_bullet \o item.short
    \o (IF /\ item.pr # <<>>
           /\ cfg.includePrLinks
           /\ ~Includes(item.short, item.pr)
           /\ ~Includes(item.short, <<"#">>)
           /\ extractPRNumber(item.pr) # <<>>
        THEN <<" ", "(">> \o extractPRNumber(item.pr) \o <<")">>
        ELSE <<>>)
    \o (IF item.why # <<>> THEN <<" ", "-", " ">> \o item.why ELSE <<>>)

\* the lines of one section; a section without items is skipped
SectionLines(cfg, section) ==
  IF Len(section.items) = 0 THEN <<>>
  ELSE <<s_h3 \o section.title, <<>>>>
         \o [j \in 1..Len(section.items) |-> Bullet(cfg, section.items[j])]
         \o << <<>> >>

\* the switch over note.type (an emoji is written as its code point)
NotePrefix(type) ==
  CASE type = "breaking" -> <<"U+26A0 **BREAKING**: ">>
    [] type = "migration" -> <<"U+1F4DD **Migration**: ">>
    [] type = "deprecation" -> <<"U+1F5D1 **Deprecated**: ">>
    [] OTHER -> <<"U+1F4A1 **Note**: ">>

\* the lines of one developer note
NoteLines(note) ==
  <<s_bullet \o NotePrefix(note.type) \o note.desc>>
    \o (IF note.migration # <<>>
        THEN <<<<"  - Migration: ">> \o note.migration>>
        ELSE <<>>)

\* generateReleaseSection(releaseData, version) on the day `date`
generateReleaseSection(cfg, releaseData, version, date) ==
  Terminated(
    <<s_h2 \o (IF version # <<>> THEN version \o s_dash \o date
               ELSE releaseData.releaseTitle),
      <<>>>>
    \o Concat([i \in 1..Len(releaseData.sections) |->
                 SectionLines(cfg, releaseData.sections[i])])
    \o (IF Len(releaseData.developerNotes) > 0
        THEN <<s_h3 \o <<"Developer Notes">>, <<>>>>
               \o Concat([i \in 1..Len(releaseData.developerNotes) |->
                            NoteLines(releaseData.developerNotes[i])])
               \o << <<>> >>
        ELSE <<>>)
    \o (IF releaseData.summary # <<>>
        THEN <<<<"**Summary:** ">> \o releaseData.summary, <<>>>>
        ELSE <<>>))
(***************************************************************************)
(* ChangelogWriter: merging a release section into the document            *)
(* Indexes are the 0-based array indexes of the code.                      *)
(***************************************************************************)
\* lines[i]?.startsWith('## ')
IsHeadingLine(line) == StartsWith(line, s_h2)

\* findHeaderEndIndex(lines)
findHeaderEndIndex(lines) ==
  LET heads == {i \in 0..(Len(lines) - 1) : IsHeadingLine(lines[i + 1])}
      blanks == {i \in 0..(Len(lines) - 1) : Trim(lines[i + 1]) = <<>> /\ i > 5}
  IN IF heads # {} THEN MinOf(heads) - 1
     ELSE IF blanks # {} THEN MinOf(blanks)
     ELSE Len(lines) - 1

\* new RegExp(`^## .*${escapeRegex(version)}`, 'i').test(line): the line
\* starts with '## ' and the version text, taken literally and without
\* regard to case, occurs anywhere after these three characters
VersionPatternTest(line, version) ==
  /\ IsHeadingLine(line)
  /\ Includes(ToLowerCase(SubSeq(line, 4, Len(line))), ToLowerCase(version))

\* findExistingVersion(lines, version): -1 when no line matches
findExistingVersion(lines, version) ==
  LET hits == {i \in 0..(Len(lines) - 1) : VersionPatternTest(lines[i + 1], version)}
  IN IF hits = {} THEN 0 - 1 ELSE MinOf(hits)

\* the endIndex loop of replaceExistingVersion: next '## ' line or lines.length
SectionEndIndex(lines, versionIndex) ==
  LET nexts == {i \in (versionIndex + 1)..(Len(lines) - 1) : IsHeadingLine(lines[i + 1])}
  IN IF nexts = {} THEN Len(lines) ELSE MinOf(nexts)

\* replaceExistingVersion(lines, newContent, versionIndex)
replaceExistingVersion(lines, newContent, versionIndex) ==
  JoinLines(SliceTo(lines, versionIndex)
              \o TextTrim(newContent)
              \o << <<>> >>
              \o SliceFrom(lines, SectionEndIndex(lines, versionIndex)))

\* the branch updateExistingChangelog takes
UpdateBranch(lines, version) ==
  IF version # <<>> /\ findExistingVersion(lines, version) # 0 - 1
  THEN "replace" ELSE "insert"

\* updateExistingChangelog(existingContent, newReleaseContent, version)
updateExistingChangelog(existingContent, newReleaseContent, version) ==
  IF UpdateBranch(existingContent, version) = "replace"
  THEN replaceExistingVersion(existingContent, newReleaseContent,
                              findExistingVersion(existingContent, version))
  ELSE TextConcat(
         TextConcat(
           TextConcat(JoinLines(SliceTo(existingContent, findHeaderEndIndex(existingContent) + 1)),
                      LineFeed),
           newReleaseContent),
         JoinLines(SliceFrom(existingContent, findHeaderEndIndex(existingContent) + 1)))

\* the fixed opening of createNewChangelog, up to the place of the content
NewChangelogHeader ==
  << <<"# Changelog">>,
     <<>>,
     <<"All notable changes to this project will be documented in this file.">>,
     <<>>,
     <<"The format is based on [Keep a Changelog](https://keepachangelog.com/en/1.0.0/),">>,
     <<"and this project adheres to [Semantic Versioning](https://semver.org/spec/v2.0.0.html).">>,
     <<>>,
     <<>> >>

\* createNewChangelog(newReleaseContent)
createNewChangelog(newReleaseContent) == TextConcat(NewChangelogHeader, newReleaseContent)

\* the branch writeChangelog takes: `fileExists && existingContent.trim()`
WriteBranch(fileExists, existingContent, version) ==
  IF fileExists /\ TextTrim(existingContent) # EmptyText
  THEN UpdateBranch(existingContent, version)
  ELSE "create"

\* updatedContent of writeChangelog
UpdatedContent(fileExists, existingContent, newReleaseContent, version) ==
  IF WriteBranch(fileExists, existingContent, version) = "create"
  THEN createNewChangelog(newReleaseContent)
  ELSE updateExistingChangelog(existingContent, newReleaseContent, version)
(***************************************************************************)
(* ChangelogWriter: configurations, release documents, stored documents    *)
(* and the calls of one writer on one changelog path                       *)
(***************************************************************************)
\* FormatConfig.includePrLinks (the other fields play no part in the merge)
WriterConfigs == [includePrLinks : BOOLEAN]

\* new Date().toISOString().split('T')[0] on the days the writer runs
WriterDates ==
  << <<"2","0","2","6","-","1","1","-","0","3">>,
     <<"2","0","2","6","-","1","1","-","0","4">> >>

\* the day on which the documents found at the start were written
d_earlier == <<"2","0","2","6","-","1","1","-","0","2">>

AllDates == Range(WriterDates) \cup {d_earlier}

v_120 == <<"1",".","2",".","0">>
v_20 == <<"2",".","0">>
v_31 == <<"3",".","1">>

\* version labels passed to writeChangelog: "2.0" occurs inside "1.2.0",
\* "3.1" occurs in no other label and in no date
WriterVersions == {v_120, v_20, v_31}

\* the `version` argument: a label, or <<>> for undefined / ''
VersionArgs == WriterVersions \cup {<<>>}

MkReleaseItem(short, pr, why) == [short |-> short, pr |-> pr, why |-> why]

rel_login ==
  [releaseTitle |-> <<"Release Notes">>,
   sections |->
     << [title |-> <<"F","e","a","t","u","r","e","s">>,
         items |-> <<MkReleaseItem(<<"A","d","d"," ","l","o","g","i","n">>,
                                   <<"h","/","p","u","l","l","/","7">>, <<>>)>>],
        [title |-> <<"F","i","x","e","s">>, items |-> <<>>] >>,
   developerNotes |-> <<>>,
   summary |-> <<"One feature.">>]

rel_fix ==
  [releaseTitle |-> <<"Release Notes">>,
   sections |->
     << [title |-> <<"F","i","x","e","s">>,
         items |-> <<MkReleaseItem(<<"F","i","x"," ","#","5">>,
                                   <<"h","/","p","u","l","l","/","5">>,
                                   <<"crash on start">>)>>] >>,
   developerNotes |->
     <<[type |-> "breaking", desc |-> <<"API changed">>, migration |-> <<"see docs">>]>>,
   summary |-> <<>>]

WriterReleases == {rel_login, rel_fix}

Stored(text) == [exists |-> TRUE, text |-> text]

doc_absent == [exists |-> FALSE, text |-> EmptyText]
doc_empty == Stored(EmptyText)
doc_blank == Stored(<< <<" ">>, <<>> >>)
doc_title == Stored(<< <<"# Changelog">>, <<>> >>)
doc_header == Stored(NewChangelogHeader)
\* written by an earlier run for 1.2.0
doc_one ==
  Stored(createNewChangelog(
           generateReleaseSection([includePrLinks |-> TRUE], rel_login, v_120, d_earlier)))
\* the same after an earlier run for 3.1
doc_two ==
  Stored(updateExistingChangelog(
           doc_one.text,
           generateReleaseSection([includePrLinks |-> TRUE], rel_fix, v_31, d_earlier),
           v_31))

InitialDocs == {doc_absent, doc_empty, doc_blank, doc_title, doc_header, doc_one, doc_two}

\* writeChangelog calls of one writer
MaxWrites == 3

NoWrite ==
  [version |-> <<>>, data |-> rel_login, date |-> d_earlier, branch |-> "none",
   outcome |-> "none", repeat |-> FALSE, readFault |-> FALSE,
   writeFault |-> "none"]

\* the heading lines generateReleaseSection writes for a version label
VersionHeadings(v) == {s_h2 \o v \o s_dash \o d : d \in AllDates}

\* 1-based positions of the heading lines of version v
HeadingIndexes(text, v) == {i \in 1..Len(text) : text[i] \in VersionHeadings(v)}

HasVersionHeading(doc, v) == doc.exists /\ HeadingIndexes(doc.text, v) # {}

\* new ChangelogWriter(config), with whatever document the path holds
InitWriter ==
  /\ wconfig \in WriterConfigs
  /\ wtoday = 1
  /\ wdoc \in InitialDocs
  /\ wprev = wdoc
  /\ wlast = NoWrite
  /\ wwritten = <<>>
  /\ wclean = TRUE
  /\ wfresh = TRUE
  /\ wruns = <<>>
  /\ wevents = <<>>
  /\ GeneratorIdle
  /\ RedactorIdle
  /\ NormalizerIdle
  /\ PipelineIdle

\* how fs.writeFile(path, data) can end: "none" it stores data; "refused"
\* it fails before the file is opened; "interrupted" it fails after the file
\* was opened for writing, which truncates it, and before data was stored
WriteFaults == {"none", "refused", "interrupted"}

\* the document after fs.writeFile(path, updatedContent)
AfterWriteFile(doc, updatedContent, writeFault) ==
  CASE writeFault = "none" -> Stored(updatedContent)
    [] writeFault = "refused" -> doc
    [] OTHER -> Stored(EmptyText)

\* writeChangelog(releaseData, version).  readFault: fs.readFile fails
\* although the document exists; writeFault: fs.writeFile fails.  A run is
\* followed up to its first store failure.
WriteStep(releaseData, version, readFault, writeFault) ==
  /\ Len(wwritten) < MaxWrites
  /\ wclean
  /\ readFault => wdoc.exists
  /\   /\ \E fileExists \in {wdoc.exists /\ ~readFault} :
          \E existingContent \in {IF fileExists THEN wdoc.text ELSE EmptyText} :
          \E newReleaseContent \in
               {generateReleaseSection(wconfig, releaseData, version, WriterDates[wtoday])} :
          \E updatedContent \in
               {UpdatedContent(fileExists, existingContent, newReleaseContent, version)} :
            /\ wdoc' = AfterWriteFile(wdoc, updatedContent, writeFault)
            /\ wlast' = [version |-> version,
                         data |-> releaseData,
                         date |-> WriterDates[wtoday],
                         branch |-> WriteBranch(fileExists, existingContent, version),
                         outcome |-> IF writeFault # "none" THEN "raised"
                                     ELSE "returned",
                         readFault |-> readFault,
                         writeFault |-> writeFault,
                         repeat |-> /\ ~readFault /\ writeFault = "none"
                                    /\ wlast.outcome = "returned"
                                    /\ wlast.version = version
                                    /\ wlast.data = releaseData
                                    /\ wlast.date = WriterDates[wtoday]]
       /\ wprev' = wdoc
       /\ wwritten' = Append(wwritten, version)
       /\ wclean' = (wclean /\ ~readFault /\ writeFault = "none")
       /\ wfresh' = (wfresh /\ version # <<>> /\ ~HasVersionHeading(wdoc, version))
  /\ UNCHANGED <<wconfig, wtoday, wruns, wevents>>

\* writeChangelog called on the writer alone, with any release and label
WriteChangelog ==
  /\ \E releaseData \in WriterReleases, version \in VersionArgs,
        readFault \in BOOLEAN, writeFault \in WriteFaults :
       WriteStep(releaseData, version, readFault, writeFault)
  /\ UNCHANGED <<gvars, rvars, nvars, pvars>>

\* the calendar day changes between two calls
NextDay ==
  /\ wtoday < Len(WriterDates)
  /\ wclean
  /\ wtoday' = wtoday + 1
  /\ UNCHANGED <<gvars, rvars, nvars, pvars, wconfig, wdoc, wprev, wlast, wwritten, wclean, wfresh,
               wruns, wevents>>

NextWriter ==
  \/ WriteChangelog
  \/ NextDay

SpecWriter == InitWriter /\ [][NextWriter]_vars
(***************************************************************************)
(* ChangelogWriter: two writeChangelog calls in progress on one path.      *)
(* Each call awaits fs.readFile and later fs.writeFile; the store serves   *)
(* one file operation at a time, in any order the two calls produce.       *)
(***************************************************************************)
Callers == {1, 2}

\* a call that has been made and has not reached fs.readFile yet
CallMade(releaseData, version) ==
  [pc |-> "readFile", releaseData |-> releaseData, version |-> version,
   fileExists |-> FALSE, existingContent |-> EmptyText,
   content |-> EmptyText, outcome |-> "none"]

InitConcurrent ==
  /\ wconfig \in WriterConfigs
  /\ wtoday = 1
  /\ wdoc \in InitialDocs
  /\ wprev = wdoc
  /\ wlast = NoWrite /\ wwritten = <<>> /\ wclean = TRUE /\ wfresh = TRUE
  /\ wruns \in {<<CallMade(d1, v1), CallMade(d2, v2)>> :
                  <<d1, v1, d2, v2>> \in WriterReleases \X WriterVersions
                                         \X WriterReleases \X WriterVersions}
  /\ wevents = <<>>
  /\ GeneratorIdle
  /\ RedactorIdle
  /\ NormalizerIdle
  /\ PipelineIdle

\* Mutation: the document is read again when the call writes
ExistingReread(c) ==
  [fileExists |-> wdoc.exists,
   existingContent |-> IF wdoc.exists THEN wdoc.text ELSE EmptyText]

\* the locals fileExists and existingContent of call c, as its read left them
Existing(c) ==
  [fileExists |-> wruns[c].fileExists, existingContent |-> wruns[c].existingContent]

\* `existingContent = await fs.readFile(changelogPath, 'utf-8')` of call c,
\* with its catch
ReadFile(c) ==
  /\ wruns # <<>>
  /\ wruns[c].pc = "readFile"
  /\ \E readFault \in BOOLEAN :
       /\ readFault => wdoc.exists
       /\ \E fileExists \in {wdoc.exists /\ ~readFault} :
            /\ wruns' = [wruns EXCEPT ![c] =
                           [@ EXCEPT !.pc = "writeFile",
                                     !.fileExists = fileExists,
                                     !.existingContent =
                                        IF fileExists THEN wdoc.text ELSE EmptyText]]
            /\ wevents' = Append(wevents, [caller |-> c, op |-> "read", saw |-> wdoc,
                                           fault |-> readFault])
  /\ UNCHANGED <<gvars, rvars, nvars, pvars, wconfig, wtoday, wdoc, wprev, wlast, wwritten,
                 wclean, wfresh>>

\* the rest of call c: generateReleaseSection, the merge, and
\* `await fs.writeFile(changelogPath, updatedContent, 'utf-8')`
WriteFile(c) ==
  /\ wruns # <<>>
  /\ wruns[c].pc = "writeFile"
  /\ \E writeFault \in WriteFaults :
     \E newReleaseContent \in
          {generateReleaseSection(wconfig, wruns[c].releaseData, wruns[c].version,
                                  WriterDates[wtoday])} :
     \E updatedContent \in
          {UpdatedContent(Existing(c).fileExists, Existing(c).existingContent,
                          newReleaseContent, wruns[c].version)} :
       /\ wdoc' = AfterWriteFile(wdoc, updatedContent, writeFault)
       /\ wprev' = wdoc
       /\ wruns' = [wruns EXCEPT ![c] =
                      [@ EXCEPT !.pc = "done",
                                !.content = updatedContent,
                                !.outcome = IF writeFault = "none" THEN "returned"
                                            ELSE "raised"]]
       /\ wevents' = Append(wevents, [caller |-> c, op |-> "write", saw |-> wdoc,
                                      fault |-> writeFault # "none"])
  /\ UNCHANGED <<gvars, rvars, nvars, pvars, wconfig, wtoday, wlast, wwritten, wclean, wfresh>>

NextConcurrent ==
  \/ \E c \in Callers : ReadFile(c)
  \/ \E c \in Callers : WriteFile(c)

SpecConcurrent == InitConcurrent /\ [][NextConcurrent]_vars
(***************************************************************************)
(* ChangelogWriter: properties                                             *)
(***************************************************************************)
\* the last call returned and no store failure has happened
WriteReturned == wlast.outcome = "returned" /\ wclean

\* the block that starts with the heading at 1-based position i: up to the
\* line before the next '## ' line, or to the end of the document
BlockAt(text, i) == SubSeq(text, i, SectionEndIndex(text, i - 1))

\* the blocks of version v in a document
BlocksOf(text, v) == {BlockAt(text, i) : i \in HeadingIndexes(text, v)}

\* 1-based positions of all '## ' lines
HeadingLines(text) == {i \in 1..Len(text) : IsHeadingLine(text[i])}

\* the lines of prev are the lines of text with one run of lines taken out
KeepsLines(prev, text) ==
  \E k \in 0..Len(prev) :
    /\ Len(text) >= Len(prev)
    /\ SubSeq(text, 1, k) = SubSeq(prev, 1, k)
    /\ SubSeq(text, Len(text) - (Len(prev) - k) + 1, Len(text))
         = SubSeq(prev, k + 1, Len(prev))

\* C7: when writeChangelog replaces the block of version v, the heading and
\* content of the block of every other version are the same before and
\* after, also for labels that are substrings of one another.
C7_ReplaceKeepsOtherVersions ==
  (WriteReturned /\ wlast.branch = "replace") =>
    \A u \in WriterVersions \ {wlast.version} :
      BlocksOf(wdoc.text, u) = BlocksOf(wprev.text, u)

\* C8: calling writeChangelog(R, v) twice in a row on the same day leaves
\* the document after the second call identical to the document after the
\* first call, whatever the starting document was.
C8_SecondWriteChangesNothing ==
  (WriteReturned /\ wlast.repeat /\ wlast.version # <<>>) => wdoc = wprev

\* C9: after any sequence of writeChangelog calls that each pass a version
\* label, the document holds exactly one '## ' heading line for each
\* distinct label written.
C9_OneHeadingPerWrittenVersion ==
  (WriteReturned /\ \A i \in 1..Len(wwritten) : wwritten[i] # <<>>) =>
    \A v \in Range(wwritten) : Cardinality(HeadingIndexes(wdoc.text, v)) = 1

\* C10: a version whose heading is not yet in the document gets the first
\* '## ' heading of the result, the earlier lines keeping their order; and
\* after writing distinct new versions v1, ..., vn their headings stand in
\* the order vn, ..., v1.
C10_NewVersionGoesFirst ==
  /\ (/\ WriteReturned
      /\ wlast.version # <<>>
      /\ ~HasVersionHeading(wprev, wlast.version)) =>
       /\ HeadingLines(wdoc.text) # {}
       /\ wdoc.text[MinOf(HeadingLines(wdoc.text))]
            = s_h2 \o wlast.version \o s_dash \o wlast.date
       /\ wlast.branch # "create" => KeepsLines(wprev.text, wdoc.text)
  /\ (/\ WriteReturned
      /\ wfresh
      /\ \A i, j \in 1..Len(wwritten) : i # j => wwritten[i] # wwritten[j]) =>
       \A i, j \in 1..Len(wwritten) :
         i < j =>
           /\ HeadingIndexes(wdoc.text, wwritten[i]) # {}
           /\ HeadingIndexes(wdoc.text, wwritten[j]) # {}
           /\ \A a \in HeadingIndexes(wdoc.text, wwritten[j]),
                 b \in HeadingIndexes(wdoc.text, wwritten[i]) : a < b

\* C11: when the document cannot be read although it exists, or cannot be
\* written, writeChangelog raises and the stored document keeps the content
\* it had before the call.
C11_StoreFailureSurfacesAndKeepsDocument ==
  (wlast.readFault \/ wlast.writeFault # "none") =>
    /\ wlast.outcome = "raised"
    /\ wdoc = wprev
(***************************************************************************)
(* Normalizer: change records                                              *)
(*                                                                         *)
(* A Change is a record of all its fields plus `own`, the set of optional  *)
(* keys the object carries as own properties.  A key the object carries    *)
(* with the value `undefined` is in `own` and its field is None; a key the *)
(* object does not carry reads as None as well.                            *)
(***************************************************************************)
\* an optional number: def is FALSE for `undefined`
SomeNum(n) == [def |-> TRUE, v |-> n]
NoNum == [def |-> FALSE, v |-> 0]

\* JavaScript truthiness of an optional number
TruthyNum(o) == o.def /\ o.v # 0

\* a || b on optional strings, on optional numbers
OrElse(a, b) == IF Truthy(a) THEN a ELSE b
OrElseNum(a, b) == IF TruthyNum(a) THEN a ELSE b

\* the optional keys of interface Change the model carries
OptionalKeys ==
  {"scope", "body", "labels", "author", "filesChangedCount", "linkedIssues",
   "prNumber", "prUrl", "commitSha", "createdAt"}

(***************************************************************************)
(* Normalizer: removeDuplicates                                            *)
(***************************************************************************)
\* Normalizer.getChangeKey
getChangeKey(change) ==
  IF TruthyNum(change.prNumber)
  THEN <<"pr-", ToString(change.prNumber.v)>>
  ELSE IF Truthy(change.commitSha) THEN change.commitSha.v ELSE change.id

RECURSIVE UniqueFrom(_, _)
\* [...new Set(s)]: first occurrences, in order
UniqueFrom(s, acc) ==
  IF s = <<>> THEN acc
  ELSE UniqueFrom(Tail(s), IF Head(s) \in Range(acc) THEN acc ELSE Append(acc, Head(s)))

\* Normalizer.mergeArrays
mergeArrays(arr1, arr2) ==
  IF ~arr1.def /\ ~arr2.def THEN None
  ELSE IF ~arr1.def THEN arr2
  ELSE IF ~arr2.def THEN arr1
  ELSE Some(UniqueFrom(arr1.v \o arr2.v, <<>>))

\* the keys the object literal of mergeChanges names after the two spreads
MergedKeys ==
  {"labels", "linkedIssues", "body", "author", "prNumber", "prUrl", "commitSha",
   "filesChangedCount"}

\* field k of {...existing, ...incoming}
Spread(existing, incoming, k) == IF k \in incoming.own THEN incoming[k] ELSE existing[k]

\* Normalizer.mergeChanges
mergeChanges(existing, incoming) ==
  [id |-> incoming.id,
   type |-> incoming.type,
   scope |-> Spread(existing, incoming, "scope"),
   createdAt |-> Spread(existing, incoming, "createdAt"),
   labels |-> mergeArrays(existing.labels, incoming.labels),
   linkedIssues |-> mergeArrays(existing.linkedIssues, incoming.linkedIssues),
   title |-> OrElse(incoming.title, existing.title),
   body |-> OrElse(incoming.body, existing.body),
   author |-> OrElse(incoming.author, existing.author),
   prNumber |-> OrElseNum(incoming.prNumber, existing.prNumber),
   prUrl |-> OrElse(incoming.prUrl, existing.prUrl),
   commitSha |-> OrElse(incoming.commitSha, existing.commitSha),
   filesChangedCount |-> OrElseNum(incoming.filesChangedCount, existing.filesChangedCount),
   own |-> existing.own \cup incoming.own \cup MergedKeys]

\* position of key in the Map, 0 when the Map has no such key
MapIndex(map, key) ==
  IF \E i \in 1..Len(map) : map[i].key = key
  THEN CHOOSE i \in 1..Len(map) : map[i].key = key
  ELSE 0

\* Mutation: the loop stores every record under a new entry, merging nothing
DedupStepWithoutMerge(map, change) ==
  Append(map, [key |-> getChangeKey(change), value |-> change])

\* one iteration of the loop of removeDuplicates; the Map is the sequence of
\* its [key, value] entries in insertion order
DedupStep(map, change) ==
  Bind(getChangeKey(change), LAMBDA key :
    Bind(MapIndex(map, key), LAMBDA i :
      IF i = 0
      THEN Append(map, [key |-> key, value |-> change])
      ELSE [map EXCEPT ![i].value = mergeChanges(@, change)]))

RECURSIVE DedupLoop(_, _, _)
DedupLoop(changes, k, map) ==
  IF k > Len(changes) THEN map
  ELSE Bind(DedupStep(map, changes[k]), LAMBDA m : DedupLoop(changes, k + 1, m))

\* Normalizer.removeDuplicates
removeDuplicates(changes) ==
  Bind(DedupLoop(changes, 1, <<>>), LAMBDA map : [i \in 1..Len(map) |-> map[i].value])
(***************************************************************************)
(* Normalizer: enrichChanges                                               *)
(***************************************************************************)
s_performance == <<"p","e","r","f","o","r","m","a","n","c","e">>
s_perf == <<"p","e","r","f">>
s_security == <<"s","e","c","u","r","i","t","y">>
s_doc == <<"d","o","c">>
s_docs == <<"d","o","c","s">>
s_chore == <<"c","h","o","r","e">>
s_areaColon == <<"a","r","e","a",":">>
s_scopeColon == <<"s","c","o","p","e",":">>

\* the keyword / emoji table of sectionToChangeType, in test order
SectionTypeTable ==
  << [word |-> s_feature,     emoji |-> "U+1F680", type |-> s_feat],
     [word |-> s_fix,         emoji |-> "U+1F6E0", type |-> s_fix],
     [word |-> s_performance, emoji |-> "U+26A1",  type |-> s_perf],
     [word |-> s_security,    emoji |-> "U+1F512", type |-> s_security],
     [word |-> s_doc,         emoji |-> "U+1F4DA", type |-> s_docs],
     [word |-> s_chore,       emoji |-> "U+1F4E6", type |-> s_chore] >>

\* Normalizer.sectionToChangeType
sectionToChangeType(sectionName) ==
  LET name == ToLowerCase(sectionName)
      hits == {i \in 1..Len(SectionTypeTable) :
                 \/ Includes(name, SectionTypeTable[i].word)
                 \/ Includes(name, <<SectionTypeTable[i].emoji>>)}
  IN IF hits = {} THEN s_other ELSE SectionTypeTable[MinOf(hits)].type

\* some label of the record contains, in lower case, some label of the section;
\* guarded: the `changeLabel &&` test of categorizeChanges
HasMatchingLabel(section, changeLabels, guarded) ==
  \E j \in 1..Len(section.labels), i \in 1..Len(changeLabels) :
    /\ guarded => changeLabels[i] # <<>>
    /\ Includes(ToLowerCase(changeLabels[i]), ToLowerCase(section.labels[j]))

\* 1-based position of the first section with a matching label, 0 when none
LabelSection(cfg, change, guarded) ==
  LET hits == IF change.labels.def /\ Len(change.labels.v) > 0
              THEN {i \in 1..Len(cfg.sections) :
                      HasMatchingLabel(cfg.sections[i], change.labels.v, guarded)}
              ELSE {}
  IN IF hits = {} THEN 0 ELSE MinOf(hits)

\* Normalizer.refineChangeType
refineChangeType(cfg, change) ==
  Bind(LabelSection(cfg, change, FALSE), LAMBDA i :
    IF i = 0 THEN change.type ELSE sectionToChangeType(cfg.sections[i].name))

\* \s
RegexSpace == {" ", "\t", "\n"}

\* number of characters after offset p that differ from c, up to the first c
RunLenNot(t, p, c) ==
  CHOOSE k \in 0..(Len(t) - p) :
    /\ \A j \in 1..k : t[p + j] # c
    /\ (k = Len(t) - p \/ t[p + k + 1] = c)

\* length of the run of characters of class S that ends the text
TrailLen(t, S) ==
  CHOOSE k \in 0..Len(t) :
    /\ \A j \in 1..k : t[Len(t) - j + 1] \in S
    /\ (k = Len(t) \/ t[Len(t) - k] \notin S)

\* String.prototype.trim on a text that may hold line feeds
TrimJs(t) ==
  IF RunLen(t, 0, RegexSpace) = Len(t) THEN <<>>
  ELSE SubSeq(t, RunLen(t, 0, RegexSpace) + 1, Len(t) - TrailLen(t, RegexSpace))

\* title.match(/^(\w+)(?:\(([^)]+)\))?:/): the offset where the match ends
\* (NoMatch when there is none) and capture group 2 (<<>> when unset)
ConventionalMatch(t) ==
  Bind(RunLen(t, 0, WordChars), LAMBDA w :
    Bind(IF w + 1 <= Len(t) /\ t[w + 1] = "(" THEN RunLenNot(t, w + 1, ")") ELSE 0,
         LAMBDA g :
      IF w = 0 THEN [end |-> NoMatch, scope |-> <<>>]
      ELSE IF /\ g > 0
              /\ w + g + 3 <= Len(t)
              /\ t[w + g + 2] = ")"
              /\ t[w + g + 3] = ":"
           THEN [end |-> w + g + 3, scope |-> SubSeq(t, w + 2, w + g + 1)]
      ELSE IF w + 1 <= Len(t) /\ t[w + 1] = ":"
           THEN [end |-> w + 1, scope |-> <<>>]
      ELSE [end |-> NoMatch, scope |-> <<>>]))

\* scopeLabel.split(':')[1]
SecondPiece(label) ==
  Bind(RunLenNot(label, 0, ":"), LAMBDA a :
    SubSeq(label, a + 2, a + 1 + RunLenNot(label, a + 1, ":")))

\* Normalizer.extractScope, for a record whose title is a string
extractScope(change) ==
  LET m == ConventionalMatch(change.title.v)
      labels == IF change.labels.def THEN change.labels.v ELSE <<>>
      IsScopeLabel(l) == Includes(l, s_areaColon) \/ Includes(l, s_scopeColon)
      scopeLabels == SelectSeq(labels, IsScopeLabel)
  IN IF m.end # NoMatch /\ m.scope # <<>> THEN Some(m.scope)
     ELSE IF Len(scopeLabels) > 0 THEN Some(TrimJs(SecondPiece(scopeLabels[1])))
     ELSE change.scope

\* String.prototype.toUpperCase on one character
UpperChar(c) ==
  IF c \in LowerLetters
  THEN UpperSeq[CHOOSE i \in 1..26 : LowerSeq[i] = c]
  ELSE c

\* Normalizer.cleanTitle
cleanTitle(title) ==
  Bind(ConventionalMatch(title), LAMBDA m :
    Bind(IF m.end = NoMatch THEN title
         ELSE SubSeq(title, m.end + RunLen(title, m.end, RegexSpace) + 1, Len(title)),
         LAMBDA cleaned :
      IF cleaned = <<>> THEN <<>> ELSE <<UpperChar(cleaned[1])>> \o Tail(cleaned)))

\* /^[\w-]+:\s+.*$/m at offset p: the offset where the match ends, or NoMatch
TrailerEnd(t, p) ==
  IF p > 0 /\ t[p] # "\n" THEN NoMatch
  ELSE Bind(RunLen(t, p, WordChars \cup {"-"}), LAMBDA k :
    IF k = 0 \/ p + k + 1 > Len(t) \/ t[p + k + 1] # ":" THEN NoMatch
    ELSE Bind(RunLen(t, p + k + 1, RegexSpace), LAMBDA sp :
      IF sp = 0 THEN NoMatch
      ELSE p + k + 1 + sp + RunLenNot(t, p + k + 1 + sp, "\n")))

RECURSIVE RemoveTrailers(_, _)
\* body.replace(/^[\w-]+:\s+.*$/gm, ''), from offset p on
RemoveTrailers(t, p) ==
  IF p >= Len(t) THEN <<>>
  ELSE Bind(TrailerEnd(t, p), LAMBDA e :
    IF e = NoMatch THEN <<t[p + 1]>> \o RemoveTrailers(t, p + 1)
    ELSE RemoveTrailers(t, e))

\* the length truncateBody cuts to
NormBodyLimit == 300

\* Normalizer.truncateBody
truncateBody(body) ==
  IF ~Truthy(body) THEN None
  ELSE Bind(TrimJs(RemoveTrailers(body.v, 0)), LAMBDA withoutTrailers :
    IF Len(withoutTrailers) <= NormBodyLimit THEN Some(withoutTrailers)
    ELSE Some(SubSeq(withoutTrailers, 1, NormBodyLimit - 3) \o s_ellipsis))

\* one element of the map of enrichChanges, for a record whose title is a string
EnrichChange(cfg, change) ==
  [change EXCEPT
     !.type = refineChangeType(cfg, change),
     !.scope = extractScope(change),
     !.title = Some(cleanTitle(change.title.v)),
     !.body = truncateBody(change.body),
     !.own = @ \cup {"scope", "body"}]

\* Normalizer.enrichChanges: change.title.match raises a TypeError on a record
\* whose title is undefined
enrichChanges(cfg, changes) ==
  IF \E k \in 1..Len(changes) : ~changes[k].title.def
  THEN [threw |-> TRUE, changes |-> <<>>]
  ELSE [threw |-> FALSE,
        changes |-> [k \in 1..Len(changes) |-> EnrichChange(cfg, changes[k])]]

(***************************************************************************)
(* Normalizer: categorizeChanges, findUnmatchedChanges, normalize          *)
(***************************************************************************)
\* Mutation: the type loop runs before the label loop
ChosenSectionTypeFirst(cfg, change) ==
  LET byType == {i \in 1..Len(cfg.sections) :
                   sectionToChangeType(cfg.sections[i].name) = change.type}
  IN IF byType # {} THEN MinOf(byType) ELSE LabelSection(cfg, change, TRUE)

\* 1-based position of the section the loop body of categorizeChanges pushes
\* the record to, 0 when it pushes it nowhere
ChosenSection(cfg, change) ==
  Bind(LabelSection(cfg, change, TRUE), LAMBDA byLabel :
    IF byLabel # 0 THEN byLabel
    ELSE LET byType == {i \in 1..Len(cfg.sections) :
                          sectionToChangeType(cfg.sections[i].name) = change.type}
         IN IF byType = {} THEN 0 ELSE MinOf(byType))

\* the keys of the `sections` object, in insertion order
SectionNames(cfg) ==
  UniqueFrom([i \in 1..Len(cfg.sections) |-> cfg.sections[i].name], <<>>)

\* `if (maxItemsPerSection) ... slice(0, maxItemsPerSection)`; 0 stands for
\* an absent maxItemsPerSection
ApplyMaxItems(cfg, sectionChanges) ==
  IF cfg.maxItemsPerSection # 0 /\ Len(sectionChanges) > cfg.maxItemsPerSection
  THEN Take(sectionChanges, cfg.maxItemsPerSection)
  ELSE sectionChanges

\* Normalizer.categorizeChanges: the entries [name, changes] of the object
categorizeChanges(cfg, changes) ==
  Bind([k \in 1..Len(changes) |-> ChosenSection(cfg, changes[k])], LAMBDA chosen :
    Bind(SectionNames(cfg), LAMBDA names :
      [n \in 1..Len(names) |->
         LET idx == {k \in 1..Len(changes) :
                       chosen[k] # 0 /\ cfg.sections[chosen[k]].name = names[n]}
         IN [name |-> names[n],
             changes |-> ApplyMaxItems(cfg,
                           [j \in 1..Cardinality(idx) |->
                              changes[CHOOSE k \in idx :
                                        Cardinality({m \in idx : m < k}) = j - 1]])]]))

\* Normalizer.findUnmatchedChanges
findUnmatchedChanges(changes, sections) ==
  LET categorizedIds ==
        UNION {{sections[n].changes[k].id : k \in 1..Len(sections[n].changes)} :
               n \in 1..Len(sections)}
      NotCategorized(change) == change.id \notin categorizedIds
  IN SelectSeq(changes, NotCategorized)

\* Normalizer.normalize; dedup is what removeDuplicates returned
normalize(cfg, changes) ==
  Bind(removeDuplicates(changes), LAMBDA deduplicatedChanges :
    Bind(enrichChanges(cfg, deduplicatedChanges), LAMBDA enriched :
      IF enriched.threw
      THEN [threw |-> TRUE, dedup |-> deduplicatedChanges, changes |-> <<>>,
            sections |-> <<>>, unmatched |-> <<>>]
      ELSE Bind(categorizeChanges(cfg, enriched.changes), LAMBDA sections :
        [threw |-> FALSE,
         dedup |-> deduplicatedChanges,
         changes |-> enriched.changes,
         sections |-> sections,
         unmatched |-> findUnmatchedChanges(enriched.changes, sections)])))
(***************************************************************************)
(* Normalizer as a state machine: one instance, normalize called on it     *)
(***************************************************************************)
\* DEFAULT_CONFIG.format.maxItemsPerSection
DefaultMaxItemsPerSection == 20

\* FormatConfig values: the configured sections and maxItemsPerSection
\* (0: the optional maxItemsPerSection is absent)
s_Highlights == <<"H","i","g","h","l","i","g","h","t","s">>
s_highlight == <<"h","i","g","h","l","i","g","h","t">>
s_Maintenance == <<"M","a","i","n","t","e","n","a","n","c","e">>

\* sections a user has renamed: two display names hold no keyword and no
\* emoji of sectionToChangeType
RenamedSections ==
  << [name |-> s_Highlights,  labels |-> <<s_highlight>>],
     [name |-> s_Maintenance, labels |-> <<s_fix>>],
     [name |-> s_Features,    labels |-> <<s_feature>>] >>

NormConfigs ==
  [sections : {FormatSections}, maxItemsPerSection : {0, 1, DefaultMaxItemsPerSection}]
    \cup {[sections |-> RenamedSections, maxItemsPerSection |-> DefaultMaxItemsPerSection]}

t_api == <<"a","p","i">>
t_crash == <<"c","r","a","s","h">>
t_crashFix == <<"C","r","a","s","h"," ","f","i","x">>
t_trailer == <<"S","e","e",":"," ","#","3","\n","b","o","o","m"," ">>
t_featLogin == <<"f","e","a","t","(","u","i",")",":"," ","a","d","d"," ","l","o","g","i","n">>
t_addLogin == <<"A","d","d"," ","l","o","g","i","n">>
t_loginPage == <<"L","o","g","i","n"," ","p","a","g","e">>
t_search == <<"s","e","a","r","c","h">>
t_readme == <<"d","o","c","s",":","r","e","a","d","m","e">>
t_timeout == <<"t","i","m","e","o","u","t">>
t_Bug == <<"B","u","g">>
t_areaCore == <<"a","r","e","a",":"," ","c","o","r","e">>

\* the record GitCollector.parseCommit builds from a commit
CommitChange(hash, type, scope, title, body, date) ==
  [id |-> hash, type |-> type, scope |-> scope, title |-> Some(title), body |-> body,
   labels |-> None, author |-> Some(<<"ann">>), filesChangedCount |-> NoNum,
   linkedIssues |-> Some(<<>>), prNumber |-> NoNum, prUrl |-> None,
   commitSha |-> Some(hash), createdAt |-> Some(date),
   own |-> {"scope", "body", "author", "commitSha", "createdAt", "linkedIssues"}]

\* the record GitHubCollector.prToChange builds from a pull request
PrChange(number, type, title, body, labels, files, mergedAt, issues) ==
  [id |-> <<"#", ToString(number)>>, type |-> type, scope |-> None,
   title |-> Some(title), body |-> body, labels |-> Some(labels),
   author |-> Some(<<"bob">>), filesChangedCount |-> files,
   linkedIssues |-> Some(issues), prNumber |-> SomeNum(number),
   prUrl |-> Some(<<"h/pull/", ToString(number)>>), commitSha |-> None,
   createdAt |-> mergedAt,
   own |-> {"body", "labels", "author", "filesChangedCount", "prNumber", "prUrl",
            "createdAt", "linkedIssues"}]

\* the record GitHubCollector.issueToChange builds from an issue
IssueChange(number, type, title, labels, closedAt) ==
  [id |-> <<"#", ToString(number)>>, type |-> type, scope |-> None,
   title |-> Some(title), body |-> None, labels |-> Some(labels),
   author |-> Some(<<"cy">>), filesChangedCount |-> NoNum, linkedIssues |-> None,
   prNumber |-> NoNum, prUrl |-> None, commitSha |-> None, createdAt |-> closedAt,
   own |-> {"body", "labels", "author", "createdAt"}]

n_fixApi == CommitChange(<<"a","1">>, s_fix, Some(t_api), t_crash, Some(t_trailer), <<"d1">>)
n_fixAgain == CommitChange(<<"a","1">>, s_fix, None, t_crashFix, None, <<"d2">>)
n_pr7 ==
  PrChange(7, s_feat, t_featLogin, None, <<s_feature>>, SomeNum(3), Some(<<"d1">>),
           <<<<"#","3">>>>)
n_pr7Open ==
  PrChange(7, s_feat, t_addLogin, Some(t_addLogin), <<t_Bug, s_feature>>, NoNum, None,
           <<<<"#","3">>, <<"#","4">>>>)
n_issue7 == IssueChange(7, s_other, t_loginPage, <<>>, Some(<<"d2">>))
n_pr8 == PrChange(8, s_other, t_search, None, <<s_feat>>, SomeNum(1), Some(<<"d2">>), <<>>)
n_docs == CommitChange(<<"c","3">>, s_docs, None, t_readme, None, <<"d1">>)
n_pr9 ==
  PrChange(9, s_other, t_timeout, None, <<t_areaCore, s_fix>>, SomeNum(2), Some(<<"d1">>),
           <<>>)

\* the records that are combined in every order
NormChangePool == {n_fixApi, n_fixAgain, n_pr7, n_pr7Open, n_issue7, n_pr8, n_pr9}

\* records handed to one normalize call
MaxNormChanges == 3

\* a record whose title is undefined
n_untitled == [n_issue7 EXCEPT !.id = <<"#","6">>, !.title = None]

\* the record lists normalize is called with: lists of collected records,
\* lists with a documentation commit, and lists that hold a record without
\* title
NormInputs ==
  DistinctSeqs(NormChangePool, MaxNormChanges)
    \cup {<<n_docs>>, <<n_docs, n_fixApi>>, <<n_pr9, n_docs>>}
    \cup {<<n_untitled>>, <<n_docs, n_untitled>>}

NoNormalized ==
  [threw |-> FALSE, changes |-> <<>>, sections |-> <<>>, unmatched |-> <<>>,
   called |-> FALSE]

\* new Normalizer(config)
InitNorm ==
  /\ nconfig \in NormConfigs
  /\ ninput = <<>>
  /\ ndedup = <<>>
  /\ noutput = NoNormalized
  /\ GeneratorIdle
  /\ RedactorIdle
  /\ WriterIdle
  /\ PipelineIdle

\* normalize(changes).  The instance holds nothing but its config and
\* normalize reads no other state, so every call is the first call of some run.
NormalizeStep(changes) ==
  /\ ~noutput.called
  /\   \E r \in {normalize(nconfig, changes)} :
         /\ ninput' = changes
         /\ ndedup' = r.dedup
         /\ noutput' = [threw |-> r.threw, changes |-> r.changes,
                        sections |-> r.sections, unmatched |-> r.unmatched,
                        called |-> TRUE]
  /\ UNCHANGED nconfig

\* normalize called on the instance alone, with any record list
\* records handed to one normalize call of an instance whose sections are
\* not the default ones (sections are chosen record by record)
MaxRenamedChanges == 1

\* the inputs tried on an instance with configuration cfg
InputsFor(cfg) ==
  IF cfg.sections = FormatSections THEN NormInputs
  ELSE {changes \in NormInputs : Len(changes) <= MaxRenamedChanges}

Normalize ==
  /\ (\E changes \in InputsFor(nconfig) : NormalizeStep(changes))
  /\ UNCHANGED <<gvars, rvars, wvars, pvars>>

NextNorm == Normalize

SpecNorm == InitNorm /\ [][NextNorm]_vars
(***************************************************************************)
(* Normalizer: properties                                                  *)
(***************************************************************************)
\* the last normalize call got as far as returning from removeDuplicates
NormCalled == noutput.called

\* the merge keys of a record list
KeysOf(changes) == {getChangeKey(changes[i]) : i \in 1..Len(changes)}

\* 1-based positions of the records of the list that have the merge key
GroupOf(changes, key) == {i \in 1..Len(changes) : getChangeKey(changes[i]) = key}

ScalarFields ==
  {"title", "body", "author", "scope", "createdAt", "prNumber", "prUrl", "commitSha",
   "filesChangedCount"}

\* the field of the record holds a non-empty value
NonEmptyField(change, f) ==
  IF f \in {"prNumber", "filesChangedCount"} THEN TruthyNum(change[f])
  ELSE IF f = "createdAt" THEN change[f].def
  ELSE Truthy(change[f])

\* the merged record carries, in scalar field f, the value of the last record
\* of the group that has a non-empty f
KeepsLastNonEmpty(merged, changes, group, f) ==
  LET holders == {i \in group : NonEmptyField(changes[i], f)}
  IN holders # {} => merged[f] = changes[MaxOf(holders)][f]

\* the merged record carries, in array field f, the duplicate-free union
KeepsUnion(merged, changes, group, f) ==
  /\ Range(merged[f].v) = UNION {Range(changes[i][f].v) : i \in group}
  /\ Cardinality(Range(merged[f].v)) = Len(merged[f].v)

\* C12: for every group of input records sharing a merge key, the merged
\* record returned by removeDuplicates carries labels and linkedIssues as the
\* duplicate-free union and every scalar field as the value of the last
\* record of the group on which it is non-empty.
C12_MergedRecordKeepsEveryField ==
  NormCalled =>
    \A key \in KeysOf(ninput) :
      \A k \in GroupOf(ndedup, key) :
        /\ \A f \in ScalarFields :
             KeepsLastNonEmpty(ndedup[k], ninput, GroupOf(ninput, key), f)
        /\ \A f \in {"labels", "linkedIssues"} :
             KeepsUnion(ndedup[k], ninput, GroupOf(ninput, key), f)

\* C13: removeDuplicates returns at most as many records as it receives and
\* exactly one record per distinct merge key of the input (PR number, else
\* commit identifier, else id); no two returned records share a merge key.
C13_OneRecordPerMergeKey ==
  NormCalled =>
    /\ Len(ndedup) <= Len(ninput)
    /\ KeysOf(ndedup) = KeysOf(ninput)
    /\ \A key \in KeysOf(ninput) : Cardinality(GroupOf(ndedup, key)) = 1

\* removeDuplicates merged two records of one key and kept records of a PR
\* key, a commit key and an id key apart
C13_Witness ==
  /\ NormCalled
  /\ Len(ninput) = 3
  /\ Len(ndedup) = 2
  /\ \E i, j \in 1..Len(ninput) :
       /\ i # j
       /\ getChangeKey(ninput[i]) = getChangeKey(ninput[j])
       /\ TruthyNum(ninput[i].prNumber)
  /\ \E k \in 1..Len(ndedup) : ~TruthyNum(ndedup[k].prNumber)

\* normalize returned a result
NormReturned == noutput.called /\ ~noutput.threw

\* number of times the record stands in a list
Occurrences(list, change) == Cardinality({j \in 1..Len(list) : list[j] = change})

\* number of times the record stands in the section lists of the output
InSections(out, change) ==
  LET Count[n \in 0..Len(out.sections)] ==
        IF n = 0 THEN 0
        ELSE Count[n - 1] + Occurrences(out.sections[n].changes, change)
  IN Count[Len(out.sections)]

\* C14: in the output of normalize every deduplicated record stands in exactly
\* one place, the list of one section or the unmatched list, also when two
\* records carry the same id.
C14_EveryRecordInExactlyOnePlace ==
  NormReturned =>
    \A k \in 1..Len(noutput.changes) :
      InSections(noutput, noutput.changes[k])
        + Occurrences(noutput.unmatched, noutput.changes[k]) = 1

\* the records categorizeChanges pushed to the section named name, in order,
\* before the cap was applied
PushedTo(cfg, changes, name) ==
  LET Chosen(c) ==
        /\ ChosenSection(cfg, c) # 0
        /\ cfg.sections[ChosenSection(cfg, c)].name = name
  IN SelectSeq(changes, Chosen)

\* C15: every section list holds at most maxItemsPerSection records, the
\* first ones in record order; a record the cap cut off is in no other
\* section list and not in the unmatched list, and is still in the output's
\* full record list.
C15_CapKeepsFirstAndMovesNothing ==
  (NormReturned /\ nconfig.maxItemsPerSection # 0) =>
    \A n \in 1..Len(noutput.sections) :
      LET pushed == PushedTo(nconfig, noutput.changes, noutput.sections[n].name)
      IN /\ Len(noutput.sections[n].changes) <= nconfig.maxItemsPerSection
         /\ noutput.sections[n].changes = Take(pushed, nconfig.maxItemsPerSection)
         /\ \A k \in (nconfig.maxItemsPerSection + 1)..Len(pushed) :
              /\ InSections(noutput, pushed[k]) = 0
              /\ Occurrences(noutput.unmatched, pushed[k]) = 0
              /\ Occurrences(noutput.changes, pushed[k]) = 1

\* the names of the section lists of the output that hold a record of the key
SectionsOfKey(out, key) ==
  {out.sections[n].name : n \in {m \in 1..Len(out.sections) :
     \E j \in 1..Len(out.sections[m].changes) :
       getChangeKey(out.sections[m].changes[j]) = key}}

\* the orderings of a record list
Orderings(changes) ==
  {[i \in 1..Len(changes) |-> changes[f[i]]] : f \in Permutations(1..Len(changes))}

\* every record of the list has a label that matches a configured section
LabelMatching(cfg, changes) ==
  \A i \in 1..Len(changes) : LabelSection(cfg, changes[i], TRUE) # 0

\* C16: for records that all match a section by label, every ordering of the
\* input gives each record the same section in the output of normalize.
C16_SectionIndependentOfRecordOrder ==
  (NormReturned /\ LabelMatching(nconfig, ninput)) =>
    \A other \in Orderings(ninput) :
      \A key \in KeysOf(ninput) :
        SectionsOfKey(normalize(nconfig, other), key) = SectionsOfKey(noutput, key)

(***************************************************************************)
(* ClaudeGenerator: the outcome of the simplified retry                    *)
(***************************************************************************)
\* the response parses and the parsed document passes validateReleaseData
SatisfiesValidationRules(resp) ==
  /\ resp.kind # "raise"
  /\ \E p \in {parseClaudeResponse(resp)} :
       /\ p.ok
       /\ ~validateReleaseData(p.data).threw
       /\ validateReleaseData(p.data).isValid

\* C17: when the first response failed validation and the response of the
\* simplified retry satisfies all Validation Rules, the run reports validation
\* as passed; a returned retry document is reported as unvalidated only when
\* it fails the Validation Rules.
C17_ValidRetryReportedValidated ==
  (RunFinished /\ Len(gcalls) = 2) =>
    /\ SatisfiesValidationRules(gcalls[2].resp) => gresult.wasValidated
    /\ (gresult.path = "retry" /\ ~gresult.wasValidated) =>
         ~SatisfiesValidationRules(gcalls[2].resp)

(***************************************************************************)
(* ClaudeGenerator: the deterministic fallback against the Categorizer     *)
(***************************************************************************)
\* a record of the generator model as the Normalizer model reads it
AsNormChange(change) == [change EXCEPT !.labels = Some(@)]

\* the FormatConfig the generator and the Normalizer are constructed with
GenFormatConfig ==
  [sections |-> FormatSections, maxItemsPerSection |-> DefaultMaxItemsPerSection]

\* the titles of the sections of a release document that hold an item of the id
SectionTitlesOf(data, id) ==
  {data.sections.v[n].title : n \in {m \in 1..Len(data.sections.v) :
     \E k \in 1..Len(data.sections.v[m].items) : data.sections.v[m].items[k].id = id}}

\* the title of the section the Categorizer chooses for a record
CategorizerTitle(cfg, change) ==
  IF ChosenSection(cfg, change) = 0 THEN <<"Other Changes">>
  ELSE cfg.sections[ChosenSection(cfg, change)].name

\* C18: in the fallback document every record appears in exactly one
\* section, the one categorizeChanges chooses for it (label match, then type
\* inferred from the section name, in declaration order); records the
\* Categorizer leaves unmatched appear only in 'Other Changes'.
C18_FallbackAssignsAsCategorizer ==
  (RunFinished /\ gresult.path = "deterministic") =>
    \A k \in 1..Len(gchanges) :
      SectionTitlesOf(gresult.releaseData, gchanges[k].id)
        = {CategorizerTitle(GenFormatConfig, AsNormChange(gchanges[k]))}

(***************************************************************************)
(* Redactor: the truncation of the body                                    *)
(***************************************************************************)
\* C19: for every accepted truncation length N, a body that is longer than N
\* after pattern redaction is returned with length exactly N, the ellipsis
\* included, and a body of length at most N is returned as pattern redaction
\* left it.
C19_TruncatedBodyHasConfiguredLength ==
  RedactReturned =>
    \A k \in 1..Len(rinput) :
      Truthy(rinput[k].body) =>
        IF Len(routput.patternBodies[k].v) > rconfig.truncBodyTo
        THEN Len(routput.redactedChanges[k].body.v) = rconfig.truncBodyTo
        ELSE routput.redactedChanges[k].body = routput.patternBodies[k]
(***************************************************************************)
(* The pipeline functions: generateChangelog and createRelease of the CLI, *)
(* QyxChange.generateChangelog / generateAndWriteChangelog of the library  *)
(***************************************************************************)
PipeKinds == {"generate", "release", "library"}

\* the options each pipeline function reads: --preview and --dry-run of
\* `generate`; --dry-run and the tag of `release`; for the library whether
\* generateAndWriteChangelog was called, and options.version
PipeOptions(kind) ==
  CASE kind = "generate" ->
         [preview : BOOLEAN, dryRun : BOOLEAN, andWrite : {FALSE}, version : {<<>>}]
    [] kind = "release" ->
         [preview : {FALSE}, dryRun : BOOLEAN, andWrite : {FALSE}, version : {v_120}]
    [] OTHER ->
         [preview : {FALSE}, dryRun : {FALSE}, andWrite : BOOLEAN,
          version : {<<>>, v_31}]

\* DEFAULT_CONFIG.redaction
DefaultRedaction ==
  [redactPatterns |-> DefaultRedactPatterns, emailMask |-> TRUE,
   truncBodyTo |-> DefaultTruncBodyTo]

\* a commit whose body holds an e-mail address
n_mailCommit == CommitChange(<<"b","2">>, s_fix, None, t_fixLogin, Some(t_mail), <<"d1">>)

\* what the collectors return: nothing, commits and pull requests, and a
\* pull request that was collected twice
PipeCollected ==
  { <<>>, <<n_mailCommit, n_pr8>>, <<n_pr7, n_mailCommit, n_pr7Open>> }

\* the first statement after loadConfig: only generateChangelog of the CLI
\* validates the configuration and the environment
FirstStage(kind) == IF kind = "generate" THEN "validate" ELSE "collect"

\* Mutation: the generation call is made before the records are redacted
StageAfterGenerateFirst(stage) ==
  CASE stage = "validate" -> "collect"
    [] stage = "collect" -> "normalize"
    [] stage = "normalize" -> "generate"
    [] stage = "generate" -> "redact"
    [] stage = "redact" -> "deliver"

\* the statement that follows each statement of a pipeline function when it
\* returns normally; "deliver" is the preview / write part after generation
StageAfter(stage) ==
  CASE stage = "validate" -> "collect"
    [] stage = "collect" -> "normalize"
    [] stage = "normalize" -> "redact"
    [] stage = "redact" -> "generate"
    [] stage = "generate" -> "deliver"

\* a Change record as the generator definitions read it: title, labels and
\* prUrl as plain values, every other field as it is
GeneratorView(change) ==
  [change EXCEPT !.title = @.v,
                 !.labels = IF @.def THEN @.v ELSE <<>>,
                 !.prUrl = IF @.def THEN @.v ELSE <<>>]

\* a ReleaseData whose sections are an array, as the writer definitions read it
WriterView(data) ==
  [releaseTitle |-> data.releaseTitle, sections |-> data.sections.v,
   developerNotes |-> data.developerNotes, summary |-> data.summary]

\* `for (const section of releaseData.sections)` of generateReleaseSection
\* raises a TypeError on sections that are not iterable
SectionRaises(data) == data.sections.tag # "array"

\* whether the pipeline function calls writer.writeChangelog itself
WritesItself(kind, opts) ==
  CASE kind = "generate" -> ~opts.preview /\ ~opts.dryRun
    [] kind = "release" -> ~opts.dryRun
    [] OTHER -> opts.andWrite

\* the choices of the interactive preview and of the editor's save prompt
PreviewChoices == {"accept", "editSave", "editDiscard", "regenerate", "cancel"}

\* the text the user leaves in the editor
EditedTexts(preview) == {preview, << <<"edited">>, <<>> >>}

\* a pipeline function is called; its components are constructed with the
\* default configuration
InitPipe ==
  /\ pkind \in PipeKinds
  /\ popts \in PipeOptions(pkind)
  /\ ppc = FirstStage(pkind)
  /\ pchanges = <<>>
  /\ plog = <<>>
  /\ gpc = "idle" /\ genv \in BOOLEAN /\ gchanges = <<>> /\ gversion = <<>>
  /\ gresp = <<>> /\ gdata = <<>> /\ gcalls = <<>> /\ gresult = <<>> /\ gsteps = 0
  /\ rconfig = DefaultRedaction
  /\ rlastIndex = FreshLastIndex(rconfig)
  /\ rinput = <<>> /\ routput = NoRedaction /\ rdetect = NoDetection
  /\ rop = "new" /\ rcalls = 0
  /\ wconfig = [includePrLinks |-> TRUE]
  /\ wtoday = 1
  /\ wdoc \in {doc_absent, doc_one}
  /\ wprev = wdoc
  /\ wlast = NoWrite /\ wwritten = <<>> /\ wclean = TRUE /\ wfresh = TRUE
  /\ wruns = <<>> /\ wevents = <<>>
  /\ nconfig = GenFormatConfig
  /\ ninput = <<>> /\ ndedup = <<>> /\ noutput = NoNormalized

\* ConfigValidator.validateEnvironment(); `throw new Error('Invalid
\* configuration')` when it reports an error
PipeValidate ==
  /\ ppc = "validate"
  /\ ppc' = IF genv THEN StageAfter("validate") ELSE "failed"
  /\ plog' = Append(plog, "validate")
  /\ UNCHANGED <<gvars, rvars, wvars, nvars, pkind, popts, pchanges>>

\* collectCommits and the optional GitHub collection; generateChangelog of
\* the CLI returns when nothing was collected
PipeCollect ==
  /\ ppc = "collect"
  /\ \E changes \in PipeCollected :
       /\ pchanges' = changes
       /\ ppc' = IF pkind = "generate" /\ Len(changes) = 0 THEN "done"
                 ELSE StageAfter("collect")
  /\ plog' = Append(plog, "collect")
  /\ UNCHANGED <<gvars, rvars, wvars, nvars, pkind, popts>>

\* const normalized = normalizer.normalize(changes)
PipeNormalize ==
  /\ ppc = "normalize"
  /\ NormalizeStep(pchanges)
  /\ ppc' = IF noutput'.threw THEN "failed" ELSE StageAfter("normalize")
  /\ plog' = plog \o (IF noutput'.threw THEN <<"deduplicate">>
                      ELSE <<"deduplicate", "categorize">>)
  /\ UNCHANGED <<gvars, rvars, wvars, pkind, popts, pchanges>>

\* const redactionResult = redactor.redactChanges(normalized.changes)
PipeRedact ==
  /\ ppc = "redact"
  /\ RedactStep(noutput.changes, "redact")
  /\ ppc' = IF routput'.threw THEN "failed" ELSE StageAfter("redact")
  /\ plog' = Append(plog, "redact")
  /\ UNCHANGED <<gvars, wvars, nvars, pkind, popts, pchanges>>

\* generator.generateReleaseNotes(redactionResult.redactedChanges, version)
\* is called; the steps of the call are those of the generator
PipeGenerate ==
  /\ ppc = "generate"
  /\ gpc = "idle"
  /\ gpc' = "build"
  /\ gchanges' = [k \in 1..Len(routput.redactedChanges) |->
                    GeneratorView(routput.redactedChanges[k])]
  /\ gversion' = popts.version
  /\ gresp' = Undefined
  /\ gdata' = NoJson
  /\ gcalls' = <<>>
  /\ gresult' = NoResult
  /\ gsteps' = 0
  /\ ppc' = StageAfter("generate")
  /\ plog' = Append(plog, "generate")
  /\ UNCHANGED <<genv, rvars, wvars, nvars, pkind, popts, pchanges>>

\* the await of generateReleaseNotes has returned
Generated == ppc = "deliver" /\ gpc = "done"

\* writer.writeChangelog(generationResult.releaseData, version) called by
\* the pipeline function itself
PipeWrite ==
  /\ Generated
  /\ WritesItself(pkind, popts)
  /\ IF SectionRaises(gresult.releaseData)
     THEN /\ ppc' = "failed"
          /\ plog' = plog
          /\ UNCHANGED wvars
     ELSE /\ \E writeFault \in WriteFaults :
               WriteStep(WriterView(gresult.releaseData), popts.version, FALSE,
                         writeFault)
          /\ ppc' = IF wlast'.outcome = "raised" THEN "failed" ELSE "done"
          /\ plog' = Append(plog, "merge")
  /\ UNCHANGED <<gvars, rvars, nvars, pkind, popts, pchanges>>

\* --dry-run: writer.previewChangelog(releaseData) is printed; the library's
\* generateChangelog returns the release data
PipeReturnUnwritten ==
  /\ Generated
  /\ ~WritesItself(pkind, popts)
  /\ ~popts.preview
  /\ ppc' = IF pkind # "library" /\ SectionRaises(gresult.releaseData)
            THEN "failed" ELSE "done"
  /\ UNCHANGED <<gvars, rvars, wvars, nvars, pkind, popts, pchanges, plog>>

\* --preview: previewChangelog(releaseData, config) shows the section and
\* asks; 'accept' calls writeChangelog and swallows its error, 'edit' stores
\* the text left in the editor with fs.writeFile, without merging
PipePreview ==
  /\ Generated
  /\ popts.preview
  /\ IF SectionRaises(gresult.releaseData)
     THEN /\ ppc' = "failed"
          /\ plog' = plog
          /\ UNCHANGED wvars
     ELSE \E choice \in PreviewChoices :
          \E preview \in {generateReleaseSection(wconfig, WriterView(gresult.releaseData),
                                                 <<>>, WriterDates[wtoday])} :
            /\ ppc' = "done"
            /\ CASE choice = "accept" ->
                      /\ \E writeFault \in WriteFaults :
                           WriteStep(WriterView(gresult.releaseData), <<>>, FALSE,
                                     writeFault)
                      /\ plog' = Append(plog, "merge")
                 [] choice = "editSave" ->
                      /\ \E editedContent \in EditedTexts(preview) :
                           wdoc' = Stored(editedContent)
                      /\ wprev' = wdoc
                      /\ plog' = Append(plog, "save")
                      /\ UNCHANGED <<wconfig, wtoday, wlast, wwritten, wclean, wfresh, wruns, wevents>>
                 [] OTHER ->
                      /\ plog' = plog
                      /\ UNCHANGED wvars
  /\ UNCHANGED <<gvars, rvars, nvars, pkind, popts, pchanges>>

NextPipe ==
  \/ PipeValidate
  \/ PipeCollect
  \/ PipeNormalize
  \/ PipeRedact
  \/ PipeGenerate
  \/ BuildPrompt
  \/ CallExternal
  \/ Validate
  \/ Accept
  \/ RetrySimplified
  \/ AcceptRetry
  \/ DeterministicFallback
  \/ PipeWrite
  \/ PipeReturnUnwritten
  \/ PipePreview

SpecPipe == InitPipe /\ [][NextPipe]_vars

(***************************************************************************)
(* Properties of the pipeline functions                                    *)
(***************************************************************************)
\* the stages of the pipeline, in the order of the data flow
PipelineStages == <<"deduplicate", "categorize", "redact", "generate", "merge">>

IsPrefix(s, t) == Len(s) <= Len(t) /\ SubSeq(t, 1, Len(s)) = s

\* the pipeline stages that have run, in the order they ran
StagesRun ==
  LET IsStage(x) == x \in Range(PipelineStages) IN SelectSeq(plog, IsStage)

\* the document has been stored by this run
DocumentWritten == wwritten # <<>> \/ wdoc # wprev \/ "save" \in Range(plog)

\* the records the redactor returned, as the generator reads them
RedactedRecords ==
  [k \in 1..Len(routput.redactedChanges) |-> GeneratorView(routput.redactedChanges[k])]

GenerateWithoutCredentials == pkind = "generate" /\ ~genv

\* C21: a `generate` run without credentials is not aborted: it goes on to
\* collect the changes, and when generation has returned over a non-empty
\* change set, the release document is the deterministic one.
C21_GenerateWithoutCredentialsCompletes ==
  GenerateWithoutCredentials =>
    /\ ~(ppc = "failed" /\ "collect" \notin Range(plog))
    /\ (Generated /\ Len(pchanges) > 0) => gresult.path = "deterministic"

\* C22: normalize never raises, and every record it was given, a record
\* with a missing or empty title, body, labels or id included, is still
\* among the records it returns (under its merge key).
C22_NormalizeReturnsEveryRecord ==
  NormCalled =>
    /\ ~noutput.threw
    /\ KeysOf(noutput.changes) = KeysOf(ninput)

(***************************************************************************)
(* ClaudeGenerator: the way from the first response to the retry           *)
(***************************************************************************)
\* the response yields a valid Release Document: it parses and the parsed
\* document passes validateReleaseData
YieldsValidDocument(resp) ==
  LET p == parseClaudeResponse(resp)
  IN /\ p.ok
     /\ ~validateReleaseData(p.data).threw
     /\ validateReleaseData(p.data).isValid

\* C23: whenever the first external call returned a response that does not
\* yield a valid Release Document (unparseable, or a parsed document that
\* breaks a Validation Rule), the run issues the simplified retry, whose
\* request holds the first 10 records in input order.
C23_InvalidFirstResponseLeadsToRetry ==
  (RunFinished /\ Len(gcalls) >= 1 /\ gcalls[1].resp.kind # "raise"
     /\ ~YieldsValidDocument(gcalls[1].resp)) =>
    /\ Len(gcalls) = 2
    /\ gcalls[2].req = Request("simplified", Take(gchanges, 10))

\* C24: a text response that does not parse as a JSON object is parsed as
\* markdown: parseClaudeResponse returns the markdown parse of it and does
\* not report the response as unparseable.
C24_MarkdownParseFollowsFailedJsonParse ==
  \A i \in 1..Len(gcalls) :
    LET r == gcalls[i].resp
    IN (r.kind = "text" /\ ~(r.brace /\ r.jsonOk)) =>
         /\ parseClaudeResponse(r).ok
         /\ parseClaudeResponse(r).data = parseMarkdownResponse(r.lines)

(***************************************************************************)
(* Normalizer: which section a record is assigned to                       *)
(***************************************************************************)
\* the section has a label token that some label of the record contains,
\* both in lower case
TokenInSomeLabel(section, change) ==
  /\ change.labels.def
  /\ \E t \in Range(section.labels), l \in Range(change.labels.v) :
       Includes(ToLowerCase(l), ToLowerCase(t))

\* position of the first section, in declaration order, with such a token;
\* 0 when no section has one
FirstLabelSection(cfg, change) ==
  LET hits == {i \in 1..Len(cfg.sections) : TokenInSomeLabel(cfg.sections[i], change)}
  IN IF hits = {} THEN 0 ELSE MinOf(hits)

\* position of the section list of the output that holds the record, 0 when none
ListOf(out, change) ==
  LET hits == {n \in 1..Len(out.sections) :
                 Occurrences(out.sections[n].changes, change) > 0}
  IN IF hits = {} THEN 0 ELSE MinOf(hits)

\* the cap of categorizeChanges can cut a list off
CapReachable == nconfig.maxItemsPerSection # 0
                  /\ nconfig.maxItemsPerSection < Len(noutput.changes)

\* C25: a record with a label that contains a section's label token is
\* assigned to the first such section in declaration order, whatever its
\* type; only a record without such a label is assigned by its type.
C25_LabelMatchWinsInDeclarationOrder ==
  NormReturned =>
    \A k \in 1..Len(noutput.changes) :
      LET c == noutput.changes[k]
          first == FirstLabelSection(nconfig, c)
          list == ListOf(noutput, c)
      IN /\ (first # 0 /\ ~CapReachable) => list = first
         /\ (first # 0 /\ list # 0) => list = first
         /\ (first = 0 /\ list # 0) =>
              sectionToChangeType(nconfig.sections[list].name) = c.type

\* a record whose label matches the second section and whose type matches
\* the first section stands in the list of the second section
C25_Witness ==
  /\ NormReturned
  /\ \E k \in 1..Len(noutput.changes) :
       LET c == noutput.changes[k]
       IN /\ FirstLabelSection(nconfig, c) = 2
          /\ sectionToChangeType(nconfig.sections[1].name) = c.type
          /\ ListOf(noutput, c) = 2

\* the keywords and emoji of sectionToChangeType
TypeKeywords ==
  {s_feature, s_fix, s_performance, s_security, s_doc, s_chore,
   <<"U+1F680">>, <<"U+1F6E0">>, <<"U+26A1">>, <<"U+1F512">>, <<"U+1F4DA">>,
   <<"U+1F4E6">>}

\* the display name holds a keyword or an emoji of the table
RecognisedName(name) == \E w \in TypeKeywords : Includes(ToLowerCase(name), w)

\* C26: a record that matches no section by label is assigned by type only
\* to a section whose display name the table recognises and maps to the
\* record's type; a section with an unrecognised name receives no such
\* record, and the record is in the unmatched list instead.
C26_UnrecognisedSectionGetsNoTypeMatch ==
  NormReturned =>
    \A k \in 1..Len(noutput.changes) :
      LET c == noutput.changes[k]
          list == ListOf(noutput, c)
      IN (FirstLabelSection(nconfig, c) = 0 /\ list # 0) =>
           /\ RecognisedName(nconfig.sections[list].name)
           /\ sectionToChangeType(nconfig.sections[list].name) = c.type
           /\ c.type # s_other

(***************************************************************************)
(* Redactor: detectSensitiveContent and the state of the instance          *)
(***************************************************************************)
\* the first call on the instance was detectSensitiveContent and has returned
FirstCallWasDetect == rcalls = 1 /\ rop = "detect"

\* what a fresh Redactor with the same configuration returns for the records
FreshRedaction(changes) == redactChanges(rconfig, changes, FreshLastIndex(rconfig))

\* C27: detectSensitiveContent changes no state of the instance that
\* influences later results: after it, a second detectSensitiveContent with
\* the same records returns the same flagged records, reasons and risk
\* level, and a redactChanges returns what a fresh Redactor with the same
\* configuration returns.
C27_DetectLeavesInstanceUnchanged ==
  [][ FirstCallWasDetect =>
        /\ (rop' = "detect" /\ rinput' = rinput) => rdetect' = rdetect
        /\ rop' = "redact" =>
             /\ routput'.threw = FreshRedaction(rinput').threw
             /\ routput'.redactedChanges = FreshRedaction(rinput').redactedChanges
             /\ routput'.redactedCount = FreshRedaction(rinput').redactedCount ]_vars

\* the figures of the last detectSensitiveContent: flagged records, records
\* given, and reasons over all flagged records
Flagged == Len(rdetect.suspiciousChanges)
Given == Len(rinput)
Hits ==
  LET Sum[k \in 0..Flagged] ==
        IF k = 0 THEN 0 ELSE Sum[k - 1] + Len(rdetect.suspiciousChanges[k].reasons)
  IN Sum[Flagged]

\* C28: the reported risk is high when Flagged / Given > 0.5 or
\* Hits / Flagged > 3, otherwise medium when Flagged / Given > 0.2 or
\* Hits / Flagged > 1.5, otherwise low; it is low when nothing is flagged.
\* (Fractions compared in tenths: x / y > 0.5 is 10 x > 5 y.)
C28_RiskFollowsThresholds ==
  rop = "detect" =>
    rdetect.overallRisk =
      IF Flagged = 0 THEN "low"
      ELSE IF 10 * Flagged > 5 * Given \/ 10 * Hits > 30 * Flagged THEN "high"
      ELSE IF 10 * Flagged > 2 * Given \/ 10 * Hits > 15 * Flagged THEN "medium"
      ELSE "low"

\* one record of five is flagged with a single reason: the fraction is
\* exactly 0.2 and the mean exactly 1, and the risk is low
C28_Witness ==
  /\ rop = "detect"
  /\ Given = 5
  /\ Flagged = 1
  /\ Hits = 1
  /\ rdetect.overallRisk = "low"

(***************************************************************************)
(* ChangelogWriter: two calls in progress                                  *)
(***************************************************************************)
\* both calls have ended and both read the document before either wrote it
BothReadBeforeEitherWrote ==
  /\ Len(wevents) = 4
  /\ wevents[1].op = "read" /\ wevents[2].op = "read"
  /\ wevents[3].op = "write" /\ wevents[4].op = "write"

LastWriter == wevents[4].caller

FirstWriter == wevents[3].caller

\* the heading line of the block call c writes
HeadingOf(c) == s_h2 \o wruns[c].version \o s_dash \o WriterDates[wtoday]

\* what call c alone makes of document doc when it reads and writes it
\* undisturbed
OutputAlone(c, doc, readFault) ==
  LET fileExists == doc.exists /\ ~readFault
  IN UpdatedContent(fileExists, IF fileExists THEN doc.text ELSE EmptyText,
                    generateReleaseSection(wconfig, wruns[c].releaseData,
                                           wruns[c].version, WriterDates[wtoday]),
                    wruns[c].version)

ReadEventOf(c) == CHOOSE e \in Range(wevents) : e.caller = c /\ e.op = "read"

\* C29: when two calls for different versions on one path both read the
\* document before either writes it, and both return, the document left is
\* what the last writer alone makes of the document both read, and the
\* heading of the first writer's block is not in it.
C29_LastWriterAloneRemains ==
  ( /\ wruns # <<>>
    /\ BothReadBeforeEitherWrote
    /\ wruns[1].version # wruns[2].version
    /\ \A c \in Callers : wruns[c].outcome = "returned" )
  => /\ wdoc = Stored(wruns[LastWriter].content)
     /\ wdoc.text = OutputAlone(LastWriter, wevents[1].saw, ReadEventOf(LastWriter).fault)
     /\ \A i \in 1..Len(wdoc.text) : wdoc.text[i] # HeadingOf(FirstWriter)

\* both calls found the document of an earlier release, merged their block
\* into it and returned; the first writer's block was in the document
\* before the last write
C29_Witness ==
  /\ wruns # <<>>
  /\ BothReadBeforeEitherWrote
  /\ wruns[1].version # wruns[2].version
  /\ \A c \in Callers : wruns[c].outcome = "returned" /\ wruns[c].fileExists
  /\ wevents[1].saw = doc_one
  /\ \E i \in 1..Len(wprev.text) : wprev.text[i] = HeadingOf(FirstWriter)
  /\ \A i \in 1..Len(wdoc.text) : wdoc.text[i] # HeadingOf(FirstWriter)

====
